---- MODULE Spec2Model ----
(***************************************************************************)
(* Run-location data pipeline of the personal website:                     *)
(*   - scripts/process-strava-export.mjs  (batch exporter, route           *)
(*     simplification, incremental updater)                                *)
(*   - the runtime cache reader/sanitizer (readRunLocationsCache)          *)
(*                                                                         *)
(* Conventions of the model                                                *)
(*   - A JavaScript value is a record [t, v]: t is the kind of the value   *)
(*     and v its payload.  Numbers are fixed-point integers counting       *)
(*     hundredths (the number 1 is 100), NaN and the infinities have kinds *)
(*     of their own.  A string is a sequence of one-character strings.     *)
(*   - Timestamps are milliseconds since the epoch, as Date.getTime().     *)
(***************************************************************************)
EXTENDS Integers, Sequences, FiniteSets, TLC

VARIABLES
    \* simplifyCoords(coords, maxPoints)
    coords, maxPoints, step, i, result, spc,
    \* normalizeCache(raw)
    raw, normalized, renormalized, npc,
    \* readRunLocationsCache(paths)
    files, paths, attempt, errors, readResult, rpc,
    \* update-run-locations: main()
    upc, cache, loadedFrom, latestTimestamp, page, all, outcome, exitCode,
    updaterRuns, requests,
    \* splitCSVRow(line)
    row, line, fields, cpc,
    \* validate-run-locations: main()
    vpc, vIndex, stderr, stdout, vExit,
    \* parseGPXFirstCoord(gpxText), parseGPXCoordinates(gpxText)
    gpxText, firstCoord, allCoords, gpc,
    \* process-strava-export: main()
    epc, activitiesCsv, routesCsv, publicMedia, expRuns, routeRows, processed,
    runLocations, expRoutes, withGPS, withMedia, expErrors, copiedMedia, expExit,
    \* the Strava client: getAccessToken()
    cachedTokens, now, ticks, tpc, tokenResult, tokenFetches

simplifyVars == <<coords, maxPoints, step, i, result, spc>>
normVars == <<raw, normalized, renormalized, npc>>
\* the reader's own variables; files is the file system both read
readVars == <<paths, attempt, errors, readResult, rpc>>
readerVars == <<files, paths, attempt, errors, readResult, rpc>>
updVars == <<upc, cache, loadedFrom, latestTimestamp, page, all, outcome,
             exitCode, updaterRuns, requests>>
csvVars == <<row, line, fields, cpc>>
valVars == <<vpc, vIndex, stderr, stdout, vExit>>
gpxVars == <<gpxText, firstCoord, allCoords, gpc>>
expVars == <<epc, activitiesCsv, routesCsv, publicMedia, expRuns, routeRows,
             processed, runLocations, expRoutes, withGPS, withMedia, expErrors,
             copiedMedia, expExit>>
tokVars == <<cachedTokens, now, ticks, tpc, tokenResult, tokenFetches>>
nonSimplifyVars == <<normVars, readerVars, updVars, csvVars, valVars,
                     gpxVars, expVars, tokVars>>
nonNormVars == <<simplifyVars, readerVars, updVars, csvVars, valVars,
                 gpxVars, expVars, tokVars>>
nonReaderVars == <<simplifyVars, normVars, updVars, csvVars, valVars,
                   gpxVars, expVars, tokVars>>
nonUpdaterVars == <<simplifyVars, normVars, readVars, csvVars, valVars,
                    gpxVars, expVars, tokVars>>
nonCsvVars == <<simplifyVars, normVars, readerVars, updVars, valVars,
                gpxVars, expVars, tokVars>>
nonValidatorVars == <<simplifyVars, normVars, readVars, updVars, csvVars,
                      gpxVars, expVars, tokVars>>
nonGpxVars == <<simplifyVars, normVars, readerVars, updVars, csvVars,
                valVars, expVars, tokVars>>
nonExporterVars == <<simplifyVars, normVars, readVars, updVars, csvVars,
                     valVars, gpxVars, tokVars>>
nonTokenVars == <<simplifyVars, normVars, readerVars, updVars, csvVars,
                  valVars, gpxVars, expVars>>
vars == <<coords, maxPoints, step, i, result, spc,
          raw, normalized, renormalized, npc,
          files, paths, attempt, errors, readResult, rpc,
          upc, cache, loadedFrom, latestTimestamp, page, all, outcome,
          exitCode, updaterRuns, requests,
          row, line, fields, cpc,
          vpc, vIndex, stderr, stdout, vExit,
          gpxText, firstCoord, allCoords, gpc,
          epc, activitiesCsv, routesCsv, publicMedia, expRuns, routeRows,
          processed, runLocations, expRoutes, withGPS, withMedia, expErrors,
          copiedMedia, expExit,
          cachedTokens, now, ticks, tpc, tokenResult, tokenFetches>>

(***************************************************************************)
(* Bounds of the model                                                     *)
(***************************************************************************)
MaxCoords == 9
MaxTarget == 4
MaxRuns == 2
MaxMedia == 2
MaxDateRange == 3
MaxRoutes == 2
MaxPaths == 2
MaxPageLen == 2
MaxFetched == 2
MaxUpdaterRuns == 2
MaxFieldLen == 2
MaxFields == 2
MaxTrackPoints == 2
MaxRows == 2
MaxRouteRows == 1
MaxCallers == 2
MaxRefreshes == 2
MaxTicks == 3

(***************************************************************************)
(* JavaScript values                                                       *)
(***************************************************************************)
Undefined == [t |-> "undefined", v |-> 0]
Null == [t |-> "null", v |-> 0]
Bool(b) == [t |-> "boolean", v |-> b]
Num(n) == [t |-> "number", v |-> n]
NaN == [t |-> "nan", v |-> 0]
PosInf == [t |-> "inf", v |-> 1]
NegInf == [t |-> "inf", v |-> -1]
Str(s) == [t |-> "string", v |-> s]
Arr(a) == [t |-> "array", v |-> a]
Obj(o) == [t |-> "object", v |-> o]

\* typeof x === 'number'
IsNumber(x) == x.t \in {"number", "nan", "inf"}
\* Number.isFinite(x)
IsFinite(x) == x.t = "number"
\* typeof x === 'string'
IsString(x) == x.t = "string"
\* Array.isArray(x)
IsArray(x) == x.t = "array"
\* x && typeof x === 'object'   (typeof [] is 'object' too, typeof null is
\* 'object' but null is falsy)
IsObjectLike(x) == x.t \in {"object", "array"}
\* property access on an object-like value: a missing property is undefined
Get(x, f) ==
    IF x.t = "object" /\ f \in DOMAIN x.v THEN x.v[f] ELSE Undefined

(***************************************************************************)
(* Sequences                                                               *)
(***************************************************************************)
Last(s) == s[Len(s)]

\* Math.ceil(a / b) for a >= 0, b > 0
CeilDiv(a, b) == (a + b - 1) \div b

(***************************************************************************)
(* simplifyCoords: keep every step-th point, then the last point.          *)
(* A coordinate is a [lat, lng] array created by parseGPXCoordinates, so   *)
(* each element of coords is a distinct object; result[...] !== coords[..] *)
(* compares object identity.  The model names each object by its id.       *)
(***************************************************************************)
CoordObjects(n) == [k \in 1..n |-> [id |-> k]]

SimplifyInit ==
    /\ \E n \in 0..MaxCoords : coords = CoordObjects(n)
    /\ maxPoints \in 1..MaxTarget
    /\ step = 0
    /\ i = 0
    /\ result = <<>>
    /\ spc = "call"

SimplifyIdle ==
    /\ coords = <<>>
    /\ maxPoints = 1
    /\ step = 0
    /\ i = 0
    /\ result = <<>>
    /\ spc = "idle"

\* if (coords.length <= maxPoints) return coords;
SimplifyReturnInput ==
    /\ spc = "call"
    /\ Len(coords) <= maxPoints
    /\ result' = coords
    /\ spc' = "done"
    /\ UNCHANGED <<coords, maxPoints, step, i>>
    /\ UNCHANGED nonSimplifyVars

\* const step = Math.ceil(coords.length / maxPoints); const result = []; i = 0
SimplifyEnter ==
    /\ spc = "call"
    /\ Len(coords) > maxPoints
    /\ step' = CeilDiv(Len(coords), maxPoints)
    /\ i' = 0
    /\ result' = <<>>
    /\ spc' = "loop"
    /\ UNCHANGED <<coords, maxPoints>>
    /\ UNCHANGED nonSimplifyVars

\* for (let i = 0; i < coords.length; i += step) result.push(coords[i]);
\* (i is the 0-based index of the code; coords[i] is the model's coords[i+1])
SimplifyPush ==
    /\ spc = "loop"
    /\ i < Len(coords)
    /\ result' = Append(result, coords[i + 1])
    /\ i' = i + step
    /\ UNCHANGED <<coords, maxPoints, step, spc>>
    /\ UNCHANGED nonSimplifyVars

\* if (result[result.length - 1] !== coords[coords.length - 1])
\*   result.push(coords[coords.length - 1]);
\* return result;
SimplifyFinish ==
    /\ spc = "loop"
    /\ i >= Len(coords)
    /\ result' = IF Last(result).id # Last(coords).id
                 THEN Append(result, Last(coords))
                 ELSE result
    /\ spc' = "done"
    /\ UNCHANGED <<coords, maxPoints, step, i>>
    /\ UNCHANGED nonSimplifyVars

SimplifyNext ==
    \/ SimplifyReturnInput
    \/ SimplifyEnter
    \/ SimplifyPush
    \/ SimplifyFinish

(***************************************************************************)
(* Strings (sequences of one-character strings)                            *)
(***************************************************************************)
WhiteSpace == {" ", "\t"}

RECURSIVE TrimStart(_)
TrimStart(s) ==
    IF s # <<>> /\ Head(s) \in WhiteSpace THEN TrimStart(Tail(s)) ELSE s

RECURSIVE TrimEnd(_)
TrimEnd(s) ==
    IF s # <<>> /\ Last(s) \in WhiteSpace
    THEN TrimEnd(SubSeq(s, 1, Len(s) - 1))
    ELSE s

\* String.prototype.trim
Trim(s) == TrimEnd(TrimStart(s))

\* String.prototype.includes
Includes(s, sub) ==
    \E k \in 1..(Len(s) - Len(sub) + 1) : SubSeq(s, k, k + Len(sub) - 1) = sub

\* String.prototype.startsWith
StartsWith(s, prefix) ==
    Len(s) >= Len(prefix) /\ SubSeq(s, 1, Len(prefix)) = prefix

\* value.replace(/^\/+/, '')
RECURSIVE StripLeadingSlashes(_)
StripLeadingSlashes(s) ==
    IF s # <<>> /\ Head(s) = "/" THEN StripLeadingSlashes(Tail(s)) ELSE s

Digits == <<"0", "1", "2", "3", "4", "5", "6", "7", "8", "9">>
DigitChars == {Digits[k] : k \in 1..10}
DigitValue(c) == (CHOOSE k \in 1..10 : Digits[k] = c) - 1

LetterChars ==
    {"a", "b", "c", "d", "e", "f", "g", "h", "i", "j", "k", "l", "m",
     "n", "o", "p", "q", "r", "s", "t", "u", "v", "w", "x", "y", "z",
     "A", "B", "C", "D", "E", "F", "G", "H", "I", "J", "K", "L", "M",
     "N", "O", "P", "Q", "R", "S", "T", "U", "V", "W", "X", "Y", "Z"}

\* the character class [A-Za-z0-9._/-]
MediaPathChars == LetterChars \cup DigitChars \cup {".", "_", "/", "-"}

\* the literal 'strava-media/' of the pattern and of the exporter
MediaPrefix ==
    <<"s", "t", "r", "a", "v", "a", "-", "m", "e", "d", "i", "a", "/">>

\* /^strava-media\/[A-Za-z0-9._/-]+$/.test(s)
MatchesMediaPattern(s) ==
    /\ StartsWith(s, MediaPrefix)
    /\ Len(s) > Len(MediaPrefix)
    /\ \A k \in (Len(MediaPrefix) + 1)..Len(s) : s[k] \in MediaPathChars

(***************************************************************************)
(* Number(value): the numeric conversion safeNumber falls back on.         *)
(* StringToNumber covers the decimal integer literals (optional sign) and  *)
(* the blank string; every other string of the model's inputs is NaN.      *)
(***************************************************************************)
RECURSIVE DigitsValue(_)
DigitsValue(s) ==
    IF s = <<>> THEN 0
    ELSE DigitsValue(SubSeq(s, 1, Len(s) - 1)) * 10 + DigitValue(Last(s))

AllDigits(s) == s # <<>> /\ \A k \in 1..Len(s) : s[k] \in DigitChars

StringToNumber(s) ==
    LET u == Trim(s) IN
    IF u = <<>> THEN Num(0)
    ELSE IF AllDigits(u) THEN Num(DigitsValue(u) * 100)
    ELSE IF Head(u) = "-" /\ AllDigits(Tail(u))
         THEN Num(0 - DigitsValue(Tail(u)) * 100)
    ELSE IF Head(u) = "+" /\ AllDigits(Tail(u))
         THEN Num(DigitsValue(Tail(u)) * 100)
    ELSE NaN

RECURSIVE ToNumber(_)
ToNumber(x) ==
    CASE x.t = "undefined" -> NaN
      [] x.t = "null" -> Num(0)
      [] x.t = "boolean" -> IF x.v THEN Num(100) ELSE Num(0)
      [] IsNumber(x) -> x
      [] x.t = "string" -> StringToNumber(x.v)
      \* Number([]) is Number(''), Number([e]) is Number(String(e)),
      \* a longer array joins with commas and is NaN
      [] x.t = "array" ->
            IF Len(x.v) = 0 THEN Num(0)
            ELSE IF Len(x.v) > 1 THEN NaN
            ELSE IF x.v[1].t \in {"null", "undefined"} THEN Num(0)
            ELSE IF x.v[1].t \in {"boolean", "object"} THEN NaN
            ELSE ToNumber(x.v[1])
      [] x.t = "object" -> NaN

(***************************************************************************)
(* Date: new Date(s).getTime() and toISOString(), on the date strings of   *)
(* the model (January 1970, so that milliseconds stay small).              *)
(***************************************************************************)
Jan1970 == <<"1", "9", "7", "0", "-", "0", "1", "-">>
OneSecond == <<"T", "0", "0", ":", "0", "0", ":", "0", "1">>
Midnight == <<"T", "0", "0", ":", "0", "0", ":", "0", "0">>
ZeroMillisZ == <<".", "0", "0", "0", "Z">>

\* toISOString() forms
IsoA == Jan1970 \o <<"0", "1">> \o OneSecond \o ZeroMillisZ
IsoB == Jan1970 \o <<"0", "2">> \o Midnight \o ZeroMillisZ
IsoC == Jan1970 \o <<"0", "3">> \o Midnight \o ZeroMillisZ
\* the same instants written otherwise: without milliseconds (the form of
\* the activity API), and as a date only
ApiA == Jan1970 \o <<"0", "1">> \o OneSecond \o <<"Z">>
ApiB == Jan1970 \o <<"0", "2">> \o Midnight \o <<"Z">>
DayC == Jan1970 \o <<"0", "3">>
\* the form of the export's activities.csv, "Jan 2, 1970, 12:00:00 AM"
CsvDateB ==
    <<"J", "a", "n", " ", "2", ",", " ", "1", "9", "7", "0", ",", " ",
      "1", "2", ":", "0", "0", ":", "0", "0", " ", "A", "M">>

DateTable ==
    {[s |-> IsoA, ms |-> 1000, iso |-> IsoA],
     [s |-> ApiA, ms |-> 1000, iso |-> IsoA],
     [s |-> IsoB, ms |-> 86400000, iso |-> IsoB],
     [s |-> ApiB, ms |-> 86400000, iso |-> IsoB],
     [s |-> CsvDateB, ms |-> 86400000, iso |-> IsoB],
     [s |-> IsoC, ms |-> 172800000, iso |-> IsoC],
     [s |-> DayC, ms |-> 172800000, iso |-> IsoC]}

\* Number.isFinite(new Date(s).getTime())
IsValidDate(s) == \E e \in DateTable : e.s = s
\* new Date(s).getTime(), for a valid date
GetTime(s) == (CHOOSE e \in DateTable : e.s = s).ms
\* new Date(ms).toISOString()
ToISOString(ms) == (CHOOSE e \in DateTable : e.ms = ms).iso

SeqMin(s) == CHOOSE m \in {s[k] : k \in 1..Len(s)} : \A k \in 1..Len(s) : m <= s[k]
SeqMax(s) == CHOOSE m \in {s[k] : k \in 1..Len(s)} : \A k \in 1..Len(s) : m >= s[k]

RECURSIVE SeqSum(_)
SeqSum(s) == IF s = <<>> THEN 0 ELSE SeqSum(SubSeq(s, 1, Len(s) - 1)) + Last(s)

(***************************************************************************)
(* The cache reader/sanitizer                                              *)
(***************************************************************************)
\* {}
EmptyObject == Obj([f \in {} |-> Undefined])

RunText == <<"R", "u", "n">>
RouteText == <<"R", "o", "u", "t", "e">>

\* EMPTY_CACHE
EMPTY_CACHE ==
    Obj([runs |-> Arr(<<>>),
         routes |-> Arr(<<>>),
         stats |-> Obj([totalRuns |-> Num(0),
                        totalDistance |-> Num(0),
                        uniqueLocations |-> Num(0),
                        dateRange |-> Arr(<<>>)])])

\* safeNumber(value, fallback)
safeNumber(value, fallback) ==
    LET num == IF IsNumber(value) THEN value ELSE ToNumber(value) IN
    IF IsFinite(num) THEN num ELSE fallback

\* safeString(value, fallback)
safeString(value, fallback) == IF IsString(value) THEN value ELSE Str(fallback)

\* Math.max(0, n) for a finite n
MaxZero(n) == IF n.v < 0 THEN Num(0) ELSE n

\* s.trim() || fallback   (the empty string is falsy)
TrimOr(s, fallback) == IF Trim(s.v) = <<>> THEN Str(fallback) ELSE Str(Trim(s.v))

\* sanitizeMediaPath without its parent-directory check
sanitizeMediaPath_NoTraversalCheck(value) ==
    IF ~IsString(value) THEN Null
    ELSE LET normalized_ == StripLeadingSlashes(Trim(value.v)) IN
         IF normalized_ = <<>> THEN Null
         ELSE IF ~MatchesMediaPattern(normalized_) THEN Null
         ELSE Str(normalized_)

\* sanitizeMediaPath(value): the sanitized path, or null
sanitizeMediaPath(value) ==
    IF ~IsString(value) THEN Null
    ELSE LET normalized_ == StripLeadingSlashes(Trim(value.v)) IN
         IF normalized_ = <<>> \/ Includes(normalized_, <<".", ".">>) THEN Null
         ELSE IF ~MatchesMediaPattern(normalized_) THEN Null
         ELSE Str(normalized_)

\* array.filter((x) => x !== null)
NotNull(a) == SelectSeq(a, LAMBDA x : x # Null)

\* normalizeRun(raw): the normalized run, or null
normalizeRun(r) ==
    IF ~IsObjectLike(r) THEN Null
    ELSE LET lat == safeNumber(Get(r, "lat"), NaN)
             lng == safeNumber(Get(r, "lng"), NaN)
             media == IF IsArray(Get(r, "media"))
                      THEN NotNull([k \in 1..Len(Get(r, "media").v) |->
                                       sanitizeMediaPath(Get(r, "media").v[k])])
                      ELSE <<>>
         IN IF ~IsFinite(lat) \/ ~IsFinite(lng) THEN Null
            ELSE Obj([lat |-> lat,
                      lng |-> lng,
                      name |-> TrimOr(safeString(Get(r, "name"), RunText), RunText),
                      date |-> safeString(Get(r, "date"), <<>>),
                      distance |-> MaxZero(safeNumber(Get(r, "distance"), Num(0))),
                      moving_time |-> MaxZero(safeNumber(Get(r, "moving_time"), Num(0))),
                      media |-> Arr(media),
                      gear |-> Str(Trim(safeString(Get(r, "gear"), <<>>).v))])

\* the callback of route.coordinates.map in normalizeRoute
normalizeCoord(c) ==
    IF ~IsArray(c) \/ Len(c.v) < 2 THEN Null
    ELSE LET lat == safeNumber(c.v[1], NaN)
             lng == safeNumber(c.v[2], NaN)
         IN IF ~IsFinite(lat) \/ ~IsFinite(lng) THEN Null
            ELSE Arr(<<lat, lng>>)

\* normalizeRoute(raw): the normalized route, or null
normalizeRoute(r) ==
    IF ~IsObjectLike(r) THEN Null
    ELSE IF ~IsArray(Get(r, "coordinates")) THEN Null
    ELSE LET coordinates == NotNull([k \in 1..Len(Get(r, "coordinates").v) |->
                                        normalizeCoord(Get(r, "coordinates").v[k])])
         IN
         IF Len(coordinates) < 2 THEN Null
         ELSE Obj([name |-> TrimOr(safeString(Get(r, "name"), RouteText), RouteText),
                   coordinates |-> Arr(coordinates)])

\* getDateRange(runs), runs a sequence of normalized runs
getDateRange(runs) ==
    LET valid == SelectSeq(runs, LAMBDA r : IsValidDate(r.v.date.v))
        timestamps == [k \in 1..Len(valid) |-> GetTime(valid[k].v.date.v)]
    IN IF Len(timestamps) = 0 THEN <<>>
       ELSE <<Str(ToISOString(SeqMin(timestamps))),
              Str(ToISOString(SeqMax(timestamps)))>>

\* Math.round(x * 10), the tenth of a degree a coordinate falls in;
\* (Math.round(x * 10) / 10).toFixed(1) prints it
RoundTenths(x) == (x.v + 5) \div 10

\* getUniqueLocations(runs)
getUniqueLocations(runs) ==
    Cardinality({<<RoundTenths(runs[k].v.lat), RoundTenths(runs[k].v.lng)>> :
                    k \in 1..Len(runs)})

\* normalizeStats keeping the persisted totals when they are finite numbers
normalizeStats_TrustsTotals(rawStats, runs) ==
    LET computedDistance == SeqSum([k \in 1..Len(runs) |-> runs[k].v.distance.v])
        computedDateRange == getDateRange(runs)
        stats == IF IsObjectLike(rawStats) THEN rawStats ELSE EmptyObject
        dr == Get(stats, "dateRange")
        rawDateRange ==
            IF IsArray(dr)
            THEN SelectSeq(dr.v, LAMBDA e : IsString(e) /\ Len(Trim(e.v)) > 0)
            ELSE <<>>
    IN Obj([totalRuns |-> safeNumber(Get(stats, "totalRuns"), Num(Len(runs) * 100)),
            totalDistance |-> safeNumber(Get(stats, "totalDistance"), Num(computedDistance)),
            uniqueLocations |-> Num(getUniqueLocations(runs) * 100),
            dateRange |-> Arr(IF Len(rawDateRange) >= 2
                              THEN SubSeq(rawDateRange, 1, 2)
                              ELSE computedDateRange)])

\* normalizeStats cutting the persisted dateRange to two entries before it
\* discards the entries that are no non-blank strings
normalizeStats_SlicesFirst(rawStats, runs) ==
    LET computedDistance == SeqSum([k \in 1..Len(runs) |-> runs[k].v.distance.v])
        computedDateRange == getDateRange(runs)
        stats == IF IsObjectLike(rawStats) THEN rawStats ELSE EmptyObject
        dr == Get(stats, "dateRange")
        rawDateRange == IF IsArray(dr) THEN dr.v ELSE <<>>
    IN Obj([totalRuns |-> Num(Len(runs) * 100),
            totalDistance |-> Num(computedDistance),
            uniqueLocations |-> Num(getUniqueLocations(runs) * 100),
            dateRange |-> Arr(IF Len(rawDateRange) >= 2
                              THEN SelectSeq(SubSeq(rawDateRange, 1, 2),
                                       LAMBDA e : IsString(e) /\ Len(Trim(e.v)) > 0)
                              ELSE computedDateRange)])

\* normalizeStats trusting the persisted dateRange only when exactly two
\* non-blank strings are left of it
normalizeStats_ExactlyTwo(rawStats, runs) ==
    LET computedDistance == SeqSum([k \in 1..Len(runs) |-> runs[k].v.distance.v])
        computedDateRange == getDateRange(runs)
        stats == IF IsObjectLike(rawStats) THEN rawStats ELSE EmptyObject
        dr == Get(stats, "dateRange")
        rawDateRange ==
            IF IsArray(dr)
            THEN SelectSeq(dr.v, LAMBDA e : IsString(e) /\ Len(Trim(e.v)) > 0)
            ELSE <<>>
    IN Obj([totalRuns |-> Num(Len(runs) * 100),
            totalDistance |-> Num(computedDistance),
            uniqueLocations |-> Num(getUniqueLocations(runs) * 100),
            dateRange |-> Arr(IF Len(rawDateRange) = 2
                              THEN rawDateRange
                              ELSE computedDateRange)])

\* normalizeStats(rawStats, runs)
normalizeStats(rawStats, runs) ==
    LET computedDistance == SeqSum([k \in 1..Len(runs) |-> runs[k].v.distance.v])
        computedDateRange == getDateRange(runs)
        stats == IF IsObjectLike(rawStats) THEN rawStats ELSE EmptyObject
        dr == Get(stats, "dateRange")
        rawDateRange ==
            IF IsArray(dr)
            THEN SelectSeq(dr.v, LAMBDA e : IsString(e) /\ Len(Trim(e.v)) > 0)
            ELSE <<>>
    IN Obj([totalRuns |-> Num(Len(runs) * 100),
            totalDistance |-> Num(computedDistance),
            uniqueLocations |-> Num(getUniqueLocations(runs) * 100),
            dateRange |-> Arr(IF Len(rawDateRange) >= 2
                              THEN SubSeq(rawDateRange, 1, 2)
                              ELSE computedDateRange)])

\* normalizeCache without the branch for a legacy array
normalizeCache_NoLegacyBranch(x) ==
    IF ~IsObjectLike(x) THEN EMPTY_CACHE
    ELSE LET runs == IF IsArray(Get(x, "runs"))
                     THEN NotNull([k \in 1..Len(Get(x, "runs").v) |->
                                      normalizeRun(Get(x, "runs").v[k])])
                     ELSE <<>>
             routes == IF IsArray(Get(x, "routes"))
                       THEN NotNull([k \in 1..Len(Get(x, "routes").v) |->
                                        normalizeRoute(Get(x, "routes").v[k])])
                       ELSE <<>>
         IN Obj([runs |-> Arr(runs),
                 routes |-> Arr(routes),
                 stats |-> normalizeStats(Get(x, "stats"), runs)])

\* normalizeCache(raw)
normalizeCache(x) ==
    IF IsArray(x)
    THEN LET runs == NotNull([k \in 1..Len(x.v) |-> normalizeRun(x.v[k])]) IN
         Obj([runs |-> Arr(runs),
              routes |-> Arr(<<>>),
              stats |-> normalizeStats(Null, runs)])
    ELSE IF ~IsObjectLike(x) THEN EMPTY_CACHE
    ELSE LET runs == IF IsArray(Get(x, "runs"))
                     THEN NotNull([k \in 1..Len(Get(x, "runs").v) |->
                                      normalizeRun(Get(x, "runs").v[k])])
                     ELSE <<>>
             routes == IF IsArray(Get(x, "routes"))
                       THEN NotNull([k \in 1..Len(Get(x, "routes").v) |->
                                        normalizeRoute(Get(x, "routes").v[k])])
                       ELSE <<>>
         IN Obj([runs |-> Arr(runs),
                 routes |-> Arr(routes),
                 stats |-> normalizeStats(Get(x, "stats"), runs)])

(***************************************************************************)
(* Inputs of normalizeCache: raw values as JSON.parse (or any caller) may  *)
(* hand them over.  A property whose value is Undefined stands for a       *)
(* missing property.                                                       *)
(***************************************************************************)
SeqsUpTo(S, n) == UNION {[1..k -> S] : k \in 0..n}

GarbageText == <<"a", "b", "c">>
BlankText == <<" ">>

\* values tried for a coordinate property
CoordValues ==
    {Undefined, Null, Bool(TRUE), Bool(FALSE), NaN, PosInf, NegInf,
     Str(<<>>), Str(BlankText), Str(GarbageText), Str(<<"1", "2">>),
     Arr(<<>>), Arr(<<Num(500)>>), EmptyObject,
     Num(0), Num(4050), Num(-7400)}

\* a run as the writers produce it
RawRun(lat, lng, name, date, distance, media) ==
    Obj([lat |-> lat, lng |-> lng, name |-> name, date |-> date,
         distance |-> distance, moving_time |-> Num(180000),
         media |-> media, gear |-> Str(<<>>)])

MorningRun == Str(<<"M", "o", "r", "n", "i", "n", "g">>)
PhotoA == Str(MediaPrefix \o <<"a", ".", "j", "p", "g">>)
PhotoB == Str(MediaPrefix \o <<"b", "-", "1", ".", "j", "p", "g">>)

RunA == RawRun(Num(4050), Num(-7400), MorningRun, Str(IsoB), Num(500000), Arr(<<PhotoA>>))
RunB == RawRun(Num(4052), Num(-7398), MorningRun, Str(ApiA), Num(1000050), Arr(<<>>))
RunC == RawRun(Num(5100), Num(0), Str(<<" ", "x", " ">>), Str(GarbageText), Num(-300), Arr(<<>>))

\* runs varied in one property at a time
RunPool ==
    {RunA, RunB, RunC,
     RawRun(Num(0), Num(0), MorningRun, Str(IsoA), Num(100), Arr(<<>>)),
     RawRun(Null, Num(-7400), MorningRun, Str(IsoA), Num(100), Arr(<<>>)),
     RawRun(Str(<<"1", "2">>), Str(<<"-", "7">>), Str(BlankText), Str(DayC),
            Str(<<"4", "2">>), Str(GarbageText)),
     RawRun(Num(4050), Num(-7400), Num(700), Num(100), Str(GarbageText), Null),
     Null, Num(100), Str(GarbageText), Arr(<<Num(4050), Num(-7400)>>)}

\* values tried for an entry of a run's media
MediaValues ==
    {PhotoA, PhotoB,
     Str(<<"/", "/">> \o PhotoA.v),
     Str(<<" ">> \o PhotoB.v \o <<" ">>),
     Str(<<"/", " ">> \o PhotoA.v),
     Str(MediaPrefix \o <<".", ".", "/", "x">>),
     Str(MediaPrefix \o <<"a", ".", ".", "b">>),
     Str(<<".", ".", "/">> \o PhotoA.v),
     Str(MediaPrefix),
     Str(MediaPrefix \o <<"a", " ", "b">>),
     Str(<<"m", "e", "d", "i", "a", "/", "a", ".", "j", "p", "g">>),
     Str(<<"x">> \o PhotoA.v),
     Str(<<>>), Null, Num(100), Arr(<<PhotoA>>)}

\* values tried for an entry of the persisted stats.dateRange
DateRangeValues ==
    {Str(IsoA), Str(IsoC), Str(ApiB), Str(GarbageText), Str(BlankText),
     Str(<<>>), Num(100), Null}

\* persisted stats: the totals are stale on purpose
RawStats(dateRange) ==
    Obj([totalRuns |-> Num(9900), totalDistance |-> Num(-100),
         uniqueLocations |-> Str(GarbageText), dateRange |-> dateRange])

RoutePool ==
    {Obj([name |-> MorningRun,
          coordinates |-> Arr(<<Arr(<<Num(4050), Num(-7400)>>),
                                Arr(<<Num(4060), Num(-7410)>>)>>)]),
     Obj([name |-> Str(BlankText),
          coordinates |-> Arr(<<Arr(<<Str(<<"1">>), Num(0), Num(100)>>),
                                Arr(<<Null, Num(100)>>),
                                Arr(<<Num(100)>>),
                                Arr(<<Num(200), Num(300)>>)>>)]),
     Obj([name |-> Null,
          coordinates |-> Arr(<<Arr(<<Num(100), Num(100)>>), Null>>)]),
     Obj([name |-> MorningRun, coordinates |-> Null]),
     Null, Str(GarbageText)}

Artifact(runs, routes, stats) ==
    Obj([runs |-> runs, routes |-> routes, stats |-> stats])

\* one run, every pair of coordinate values; as an artifact and as a legacy array
CoordArtifacts ==
    UNION {{Artifact(Arr(<<RawRun(a, b, MorningRun, Str(IsoA), Num(100), Arr(<<>>))>>),
                     Arr(<<>>), Undefined),
            Arr(<<RawRun(a, b, MorningRun, Str(IsoA), Num(100), Arr(<<>>))>>)} :
           a \in CoordValues, b \in CoordValues}

\* several runs
RunsArtifacts ==
    UNION {{Artifact(Arr(rs), Arr(<<>>), RawStats(Arr(<<>>))), Arr(rs)} :
           rs \in SeqsUpTo(RunPool, MaxRuns)}

\* one run (after a run without media), every media sequence
MediaArtifacts ==
    {Artifact(Arr(<<RunB, RawRun(Num(4050), Num(-7400), MorningRun, Str(IsoA),
                                 Num(100), Arr(ms))>>),
              Arr(<<>>), Undefined) :
        ms \in SeqsUpTo(MediaValues, MaxMedia)}

\* every persisted dateRange, over several run sets
StatsArtifacts ==
    {Artifact(Arr(rs), Arr(<<>>), st) :
        rs \in {<<>>, <<RunA>>, <<RunA, RunB>>, <<RunC>>},
        st \in {RawStats(Arr(dr)) : dr \in SeqsUpTo(DateRangeValues, MaxDateRange)}
               \cup {Null, Str(IsoA), Arr(<<Str(IsoA), Str(IsoC)>>),
                     RawStats(Str(IsoA)), RawStats(Null), EmptyObject}}

RoutesArtifacts ==
    {Artifact(Arr(<<RunA>>), Arr(rs), RawStats(Arr(<<>>))) :
        rs \in SeqsUpTo(RoutePool, MaxRoutes)}

\* roots that are no artifact at all
RootValues ==
    {Undefined, Null, Bool(TRUE), Num(0), Num(100), NaN, Str(<<>>),
     Str(GarbageText), EmptyObject,
     Artifact(Null, Null, Null),
     Artifact(RunA, Str(GarbageText), Num(100))}

RawInputs ==
    CoordArtifacts \cup RunsArtifacts \cup MediaArtifacts \cup StatsArtifacts
        \cup RoutesArtifacts \cup RootValues

NormInit ==
    /\ raw \in RawInputs
    /\ normalized = Undefined
    /\ renormalized = Undefined
    /\ npc = "raw"

\* normalizeCache(raw)
Normalize ==
    /\ npc = "raw"
    /\ normalized' = normalizeCache(raw)
    /\ npc' = "normalized"
    /\ UNCHANGED <<raw, renormalized>>
    /\ UNCHANGED nonNormVars

\* normalizeCache applied to an artifact that is already normalized
Renormalize ==
    /\ npc = "normalized"
    /\ renormalized' = normalizeCache(normalized)
    /\ npc' = "renormalized"
    /\ UNCHANGED <<raw, normalized>>
    /\ UNCHANGED nonNormVars

NormNext ==
    \/ Normalize
    \/ Renormalize

(***************************************************************************)
(* readRunLocationsCache(paths): the file system is a function from path   *)
(* to content.  A content is missing (readFileSync throws), text that is   *)
(* no JSON (JSON.parse throws), or text that parses to a value.  A path, a *)
(* message and a separator are each one element of the strings built here. *)
(***************************************************************************)
CachePath == ".cache/run-locations.json"
PublicPath == "public/data/run-locations.json"
OtherPath == "fixture.json"
Paths == {CachePath, PublicPath, OtherPath}

Missing == [k |-> "missing", json |-> Undefined]
Unparseable == [k |-> "text", json |-> Undefined]
Json(x) == [k |-> "json", json |-> x]

\* what JSON.parse can return for the file contents of the model
JsonValues ==
    {Null, Num(100), Str(GarbageText),
     Arr(<<RunA>>),
     Artifact(Arr(<<RunB, Null>>), Arr(<<>>), RawStats(Arr(<<Str(IsoA)>>)))}

FileContents == {Missing, Unparseable} \cup {Json(x) : x \in JsonValues}

\* getDefaultPaths()
getDefaultPaths == <<CachePath, PublicPath>>

\* error.message of the error readFileSync or JSON.parse throws
ReadErrorMessage(content) ==
    IF content.k = "missing" THEN "ENOENT: no such file or directory"
    ELSE "Unexpected token in JSON"

\* errors.join(' | ')
RECURSIVE JoinErrors(_)
JoinErrors(es) ==
    IF es = <<>> THEN <<>>
    ELSE IF Len(es) = 1 THEN es[1]
    ELSE es[1] \o <<" | ">> \o JoinErrors(Tail(es))

ReaderInit ==
    /\ files \in [Paths -> FileContents]
    /\ paths \in SeqsUpTo(Paths, MaxPaths) \cup {getDefaultPaths}
    /\ attempt = 0
    /\ errors = <<>>
    /\ readResult = Undefined
    /\ rpc = "loop"

ReaderIdle ==
    /\ files = [p \in Paths |-> Missing]
    /\ paths = <<>>
    /\ attempt = 0
    /\ errors = <<>>
    /\ readResult = Undefined
    /\ rpc = "idle"

\* try { const raw = JSON.parse(readFileSync(path, 'utf-8'));
\*       return { data: normalizeCache(raw), error: null, source: path }; }
ReadParsed ==
    /\ rpc = "loop"
    /\ attempt < Len(paths)
    /\ files[paths[attempt + 1]].k = "json"
    /\ readResult' = [data |-> normalizeCache(files[paths[attempt + 1]].json),
                      error |-> Null,
                      source |-> Str(<<paths[attempt + 1]>>)]
    /\ rpc' = "returned"
    /\ UNCHANGED <<files, paths, attempt, errors>>
    /\ UNCHANGED nonReaderVars

\* the catch block without errors.push
ReadFailed_DropsMessage ==
    /\ rpc = "loop"
    /\ attempt < Len(paths)
    /\ files[paths[attempt + 1]].k # "json"
    /\ attempt' = attempt + 1
    /\ UNCHANGED <<files, paths, errors, readResult, rpc>>
    /\ UNCHANGED nonReaderVars

\* catch (error) { errors.push(`${path}: ${message}`); }
ReadFailed ==
    /\ rpc = "loop"
    /\ attempt < Len(paths)
    /\ files[paths[attempt + 1]].k # "json"
    /\ errors' = Append(errors, <<paths[attempt + 1], ": ",
                                  ReadErrorMessage(files[paths[attempt + 1]])>>)
    /\ attempt' = attempt + 1
    /\ UNCHANGED <<files, paths, readResult, rpc>>
    /\ UNCHANGED nonReaderVars

\* return { data: EMPTY_CACHE,
\*          error: errors.join(' | ') || 'No run locations data file found',
\*          source: null };
ReadExhausted ==
    /\ rpc = "loop"
    /\ attempt >= Len(paths)
    /\ readResult' = [data |-> EMPTY_CACHE,
                      error |-> IF JoinErrors(errors) = <<>>
                                THEN Str(<<"No run locations data file found">>)
                                ELSE Str(JoinErrors(errors)),
                      source |-> Null]
    /\ rpc' = "returned"
    /\ UNCHANGED <<files, paths, attempt, errors>>
    /\ UNCHANGED nonReaderVars

ReaderNext ==
    \/ ReadParsed
    \/ ReadFailed
    \/ ReadExhausted

(***************************************************************************)
(* The incremental updater (update-run-locations): main().                 *)
(* The activity API is the environment: a token refresh succeeds or fails, *)
(* a page request fails, or returns a page of activities.                  *)
(***************************************************************************)
\* !x
Falsy(x) ==
    \/ x.t \in {"undefined", "null", "nan"}
    \/ x.t = "boolean" /\ ~x.v
    \/ x.t = "number" /\ x.v = 0
    \/ x.t = "string" /\ x.v = <<>>

\* JSON.parse(JSON.stringify(x)): NaN and the infinities become null, an
\* undefined array element becomes null, an undefined property is left out
RECURSIVE JsonRoundTrip(_)
JsonRoundTrip(x) ==
    CASE x.t \in {"nan", "inf"} -> Null
      [] x.t = "array" ->
            Arr([k \in 1..Len(x.v) |->
                    IF x.v[k].t = "undefined" THEN Null ELSE JsonRoundTrip(x.v[k])])
      [] x.t = "object" -> Obj([f \in DOMAIN x.v |-> JsonRoundTrip(x.v[f])])
      [] OTHER -> x

\* !isNaN(new Date(r.date).getTime()) for a date that is a string or missing
HasTime(r) == IsString(Get(r, "date")) /\ IsValidDate(Get(r, "date").v)

\* runs.map((r) => new Date(r.date).getTime()).filter((d) => !isNaN(d))
RunTimes(runs) ==
    LET dated == SelectSeq(runs, HasTime) IN
    [k \in 1..Len(dated) |-> GetTime(Get(dated[k], "date").v)]

\* the stats both writers compute from the runs they write
WriterStats(runs) ==
    LET totalDistance ==
            IF \A k \in 1..Len(runs) : IsFinite(Get(runs[k], "distance"))
            THEN Num(SeqSum([k \in 1..Len(runs) |-> Get(runs[k], "distance").v]))
            ELSE NaN
        allDates == RunTimes(runs)
        uniquePlaces ==
            Cardinality({<<RoundTenths(Get(runs[k], "lat")), RoundTenths(Get(runs[k], "lng"))>> :
                            k \in 1..Len(runs)})
    IN Obj([totalRuns |-> Num(Len(runs) * 100),
            totalDistance |-> totalDistance,
            uniqueLocations |-> Num(uniquePlaces * 100),
            dateRange |-> Arr(IF Len(allDates) > 0
                              THEN <<Str(ToISOString(SeqMin(allDates))),
                                     Str(ToISOString(SeqMax(allDates)))>>
                              ELSE <<>>)])

\* an activity of the API
Activity(type, latlng, name, local, utc, gear) ==
    Obj([type |-> type, start_latlng |-> latlng, name |-> name,
         start_date_local |-> local, start_date |-> utc,
         distance |-> Num(700000), moving_time |-> Num(240000), gear |-> gear])

RunType == Str(<<"R", "u", "n">>)
RideType == Str(<<"R", "i", "d", "e">>)
LunchRun == Str(<<"L", "u", "n", "c", "h">>)
Shoes == Obj([name |-> Str(<<"S", "h", "o", "e", "s">>)])

ActivityPool ==
    {Activity(RunType, Arr(<<Num(4050), Num(-7400)>>), LunchRun, Str(ApiA), Str(ApiB), Shoes),
     Activity(RunType, Arr(<<Num(5100), Num(-100)>>), LunchRun, Undefined, Str(IsoC), Undefined),
     Activity(RunType, Arr(<<Num(0), Num(1000)>>), LunchRun, Str(ApiB), Str(ApiB), Undefined),
     Activity(RunType, Arr(<<>>), LunchRun, Str(ApiB), Str(ApiB), Undefined),
     Activity(RunType, Null, LunchRun, Str(ApiA), Str(ApiA), Undefined),
     Activity(RideType, Arr(<<Num(4050), Num(-7400)>>), LunchRun, Str(ApiA), Str(ApiA), Undefined)}

\* a page the API returns: at least one activity
Pages == SeqsUpTo(ActivityPool, MaxPageLen) \ {<<>>}

\* artifacts the writers have left behind
ExporterRunA == RawRun(Num(4050), Num(-7400), MorningRun, Str(IsoA), Num(500000), Arr(<<PhotoA>>))
ExporterRunB == RawRun(Num(4052), Num(-7398), MorningRun, Str(IsoB), Num(1000050), Arr(<<>>))
UpdaterRunA == RawRun(Num(4050), Num(-7400), MorningRun, Str(ApiA), Num(500000), Arr(<<PhotoA>>))

WrittenArtifact(runs) == Artifact(Arr(runs), Arr(<<>>), WriterStats(runs))

\* an artifact of the exporter, with a route
ExportedRoute == Obj([name |-> MorningRun,
                      coordinates |-> Arr(<<Arr(<<Num(4050), Num(-7400)>>),
                                            Arr(<<Num(4060), Num(-7410)>>)>>)])
ExportedArtifact(runs) == Artifact(Arr(runs), Arr(<<ExportedRoute>>), WriterStats(runs))

ExistingContents ==
    {Missing, Unparseable, Json(Null),
     Json(Artifact(Null, Arr(<<>>), Null)),
     Json(WrittenArtifact(<<>>)),
     Json(WrittenArtifact(<<UpdaterRunA>>)),
     Json(ExportedArtifact(<<ExporterRunA, ExporterRunB>>)),
     Json(WrittenArtifact(<<ExporterRunB, UpdaterRunA>>))}

cacheInputCandidates == <<CachePath, PublicPath>>

\* the candidates that parse, in order
ParsingCandidates == SelectSeq(cacheInputCandidates, LAMBDA p : files[p].k = "json")

UpdaterInit ==
    /\ files \in {f \in [Paths -> ExistingContents] : f[OtherPath] = Missing}
    /\ upc = "start"
    /\ cache = Undefined
    /\ loadedFrom = Null
    /\ latestTimestamp = 0
    /\ page = 1
    /\ all = <<>>
    /\ outcome = "none"
    /\ exitCode = 0
    /\ updaterRuns = 1
    /\ requests = <<>>

UpdaterIdle ==
    /\ upc = "idle"
    /\ cache = Undefined
    /\ loadedFrom = Null
    /\ latestTimestamp = 0
    /\ page = 1
    /\ all = <<>>
    /\ outcome = "none"
    /\ exitCode = 0
    /\ updaterRuns = 0
    /\ requests = <<>>

\* the value of cache after the loop over the candidates
LoadedCache ==
    IF ParsingCandidates = <<>> THEN Undefined ELSE files[ParsingCandidates[1]].json

\* if (!cache || !Array.isArray(cache.runs)) { ...; process.exit(1); }
UpdLoadAbort ==
    /\ upc = "start"
    /\ Falsy(LoadedCache) \/ ~IsArray(Get(LoadedCache, "runs"))
    /\ upc' = "exited"
    /\ outcome' = "no-cache"
    /\ exitCode' = 1
    /\ UNCHANGED <<files, cache, loadedFrom, latestTimestamp, page, all, updaterRuns,
                   requests>>
    /\ UNCHANGED nonUpdaterVars

\* cache = JSON.parse(readFileSync(candidate, 'utf-8')); loadedFrom = candidate
UpdLoad ==
    /\ upc = "start"
    /\ ~Falsy(LoadedCache) /\ IsArray(Get(LoadedCache, "runs"))
    /\ cache' = LoadedCache
    /\ loadedFrom' = Str(<<ParsingCandidates[1]>>)
    /\ upc' = "loaded"
    /\ UNCHANGED <<files, latestTimestamp, page, all, outcome, exitCode, updaterRuns,
                   requests>>
    /\ UNCHANGED nonUpdaterVars

\* latestDate = Math.max(...dates); latestTimestamp = Math.floor(latestDate / 1000);
\* latestDateStr = new Date(latestDate).toISOString().split('T')[0]
UpdCutoff ==
    /\ upc = "loaded"
    /\ RunTimes(cache.v.runs.v) # <<>>
    /\ latestTimestamp' = SeqMax(RunTimes(cache.v.runs.v)) \div 1000
    /\ upc' = "token"
    /\ UNCHANGED <<files, cache, loadedFrom, page, all, outcome, exitCode, updaterRuns,
                   requests>>
    /\ UNCHANGED nonUpdaterVars

\* with no parseable date Math.max() is -Infinity and toISOString() throws a
\* RangeError, which main().catch reports before process.exit(1)
UpdCutoffThrows ==
    /\ upc = "loaded"
    /\ RunTimes(cache.v.runs.v) = <<>>
    /\ upc' = "exited"
    /\ outcome' = "error"
    /\ exitCode' = 1
    /\ UNCHANGED <<files, cache, loadedFrom, latestTimestamp, page, all, updaterRuns,
                   requests>>
    /\ UNCHANGED nonUpdaterVars

\* a request to the token endpoint with its response
TokenRequest(ok) ==
    [to |-> "token", after |-> 0, page |-> 0, ok |-> ok, body |-> <<>>]
\* a request for a page of activities with its response: the query of the
\* URL, res.ok, and the list res.json() resolves to
PageRequest(afterTimestamp, p, ok, activities) ==
    [to |-> "activities", after |-> afterTimestamp, page |-> p, ok |-> ok,
     body |-> activities]

\* const token = await getAccessToken();
UpdToken ==
    /\ upc = "token"
    /\ upc' = "fetch"
    /\ page' = 1
    /\ all' = <<>>
    /\ requests' = Append(requests, TokenRequest(TRUE))
    /\ UNCHANGED <<files, cache, loadedFrom, latestTimestamp, outcome, exitCode, updaterRuns>>
    /\ UNCHANGED nonUpdaterVars

\* if (!res.ok) throw new Error(`Token refresh failed: ${res.status}`)
UpdTokenFails ==
    /\ upc = "token"
    /\ upc' = "exited"
    /\ outcome' = "error"
    /\ exitCode' = 1
    /\ requests' = Append(requests, TokenRequest(FALSE))
    /\ UNCHANGED <<files, cache, loadedFrom, latestTimestamp, page, all, updaterRuns>>
    /\ UNCHANGED nonUpdaterVars

\* the loop asking for the same page again
UpdFetchPage_SamePage ==
    /\ upc = "fetch"
    /\ \E activities \in Pages :
          /\ Len(all) + Len(activities) <= MaxFetched
          /\ all' = all \o activities
          /\ requests' = Append(requests,
                                PageRequest(latestTimestamp, page, TRUE, activities))
    /\ page' = page
    /\ UNCHANGED <<files, cache, loadedFrom, latestTimestamp, upc, outcome, exitCode, updaterRuns>>
    /\ UNCHANGED nonUpdaterVars

\* one turn of while (true) with a non-empty page: fetch(url),
\* all.push(...activities); page++
UpdFetchPage ==
    /\ upc = "fetch"
    /\ \E activities \in Pages :
          /\ Len(all) + Len(activities) <= MaxFetched
          /\ all' = all \o activities
          /\ requests' = Append(requests,
                                PageRequest(latestTimestamp, page, TRUE, activities))
    /\ page' = page + 1
    /\ UNCHANGED <<files, cache, loadedFrom, latestTimestamp, upc, outcome, exitCode, updaterRuns>>
    /\ UNCHANGED nonUpdaterVars

\* if (activities.length === 0) break;
UpdFetchEnd ==
    /\ upc = "fetch"
    /\ upc' = "fetched"
    /\ requests' = Append(requests, PageRequest(latestTimestamp, page, TRUE, <<>>))
    /\ UNCHANGED <<files, cache, loadedFrom, latestTimestamp, page, all, outcome, exitCode, updaterRuns>>
    /\ UNCHANGED nonUpdaterVars

\* if (!res.ok) throw new Error(`Activities fetch failed: ${res.status}`)
UpdFetchFails ==
    /\ upc = "fetch"
    /\ upc' = "exited"
    /\ outcome' = "error"
    /\ exitCode' = 1
    /\ requests' = Append(requests, PageRequest(latestTimestamp, page, FALSE, <<>>))
    /\ UNCHANGED <<files, cache, loadedFrom, latestTimestamp, page, all, updaterRuns>>
    /\ UNCHANGED nonUpdaterVars

\* a.type === 'Run' && a.start_latlng && a.start_latlng.length === 2 &&
\* a.start_latlng[0] !== 0
HasGps(a) ==
    /\ Get(a, "type") = RunType
    /\ ~Falsy(Get(a, "start_latlng"))
    /\ IsArray(Get(a, "start_latlng"))
    /\ Len(Get(a, "start_latlng").v) = 2
    /\ Get(a, "start_latlng").v[1] # Num(0)

\* newActivities.filter(...)
NewRuns(newActivities) == SelectSeq(newActivities, HasGps)

\* a.start_date_local || a.start_date
ActivityDate(a) ==
    IF Falsy(Get(a, "start_date_local"))
    THEN Get(a, "start_date")
    ELSE Get(a, "start_date_local")

\* the mapping carrying a photo reference into the new record
ToRunRecord_KeepsPhotos(a) ==
    Obj([lat |-> Get(a, "start_latlng").v[1],
         lng |-> Get(a, "start_latlng").v[2],
         name |-> Get(a, "name"),
         date |-> ActivityDate(a),
         distance |-> Get(a, "distance"),
         moving_time |-> Get(a, "moving_time"),
         media |-> Arr(<<PhotoA>>),
         gear |-> Str(<<>>)])

\* the run record an activity is mapped to
ToRunRecord(a) ==
    Obj([lat |-> Get(a, "start_latlng").v[1],
         lng |-> Get(a, "start_latlng").v[2],
         name |-> Get(a, "name"),
         date |-> ActivityDate(a),
         distance |-> Get(a, "distance"),
         moving_time |-> Get(a, "moving_time"),
         media |-> Arr(<<>>),
         gear |-> IF Falsy(Get(a, "gear")) \/ Falsy(Get(Get(a, "gear"), "name"))
                  THEN Str(<<>>)
                  ELSE Get(Get(a, "gear"), "name")])

\* existingDates = new Set(cache.runs.map((r) => r.date))
ExistingDates(runs) == {Get(runs[k], "date") : k \in 1..Len(runs)}

\* the mapping without the filter on existingDates
RunsToAdd_NoDedup(runs, newRuns) ==
    [k \in 1..Len(newRuns) |-> ToRunRecord(newRuns[k])]

\* newRuns.map(...).filter((r) => !existingDates.has(r.date))
RunsToAdd(runs, newRuns) ==
    SelectSeq([k \in 1..Len(newRuns) |-> ToRunRecord(newRuns[k])],
              LAMBDA r : Get(r, "date") \notin ExistingDates(runs))

\* the no-op exit writing the loaded cache back to both files
UpdUpToDate_Rewrites ==
    /\ upc = "fetched"
    /\ NewRuns(all) = <<>>
    /\ upc' = "exited"
    /\ outcome' = "up-to-date"
    /\ exitCode' = 0
    /\ files' = [files EXCEPT ![CachePath] = Json(cache), ![PublicPath] = Json(cache)]
    /\ UNCHANGED <<cache, loadedFrom, latestTimestamp, page, all, updaterRuns,
                   requests>>
    /\ UNCHANGED nonUpdaterVars

\* if (newRuns.length === 0) { console.log('... Cache is up to date.'); return; }
UpdUpToDate ==
    /\ upc = "fetched"
    /\ NewRuns(all) = <<>>
    /\ upc' = "exited"
    /\ outcome' = "up-to-date"
    /\ exitCode' = 0
    /\ UNCHANGED <<files, cache, loadedFrom, latestTimestamp, page, all, updaterRuns,
                   requests>>
    /\ UNCHANGED nonUpdaterVars

\* the merge writing the fetched records in place of the loaded runs
UpdMergeWrite_Replaces ==
    /\ upc = "fetched"
    /\ NewRuns(all) # <<>>
    /\ LET merged == RunsToAdd(cache.v.runs.v, NewRuns(all))
           updated == Obj([cache.v EXCEPT !.runs = Arr(merged),
                                          !.stats = WriterStats(merged)])
       IN /\ cache' = updated
          /\ files' = [files EXCEPT ![CachePath] = Json(JsonRoundTrip(updated)),
                                    ![PublicPath] = Json(JsonRoundTrip(updated))]
    /\ upc' = "exited"
    /\ outcome' = "written"
    /\ exitCode' = 0
    /\ UNCHANGED <<loadedFrom, latestTimestamp, page, all, updaterRuns,
                   requests>>
    /\ UNCHANGED nonUpdaterVars

\* the merge writing the primary cache only, as the exporter does
UpdMergeWrite_CacheOnly ==
    /\ upc = "fetched"
    /\ NewRuns(all) # <<>>
    /\ LET merged == cache.v.runs.v \o RunsToAdd(cache.v.runs.v, NewRuns(all))
           updated == Obj([cache.v EXCEPT !.runs = Arr(merged),
                                          !.stats = WriterStats(merged)])
       IN /\ cache' = updated
          /\ files' = [files EXCEPT ![CachePath] = Json(JsonRoundTrip(updated))]
    /\ upc' = "exited"
    /\ outcome' = "written"
    /\ exitCode' = 0
    /\ UNCHANGED <<loadedFrom, latestTimestamp, page, all, updaterRuns,
                   requests>>
    /\ UNCHANGED nonUpdaterVars

\* cache.runs.push(...runsToAdd); cache.stats = {...};
\* writeFileSync(CACHE_FILE, serialized); writeFileSync(PUBLIC_DATA_FILE, serialized)
UpdMergeWrite ==
    /\ upc = "fetched"
    /\ NewRuns(all) # <<>>
    /\ LET merged == cache.v.runs.v \o RunsToAdd(cache.v.runs.v, NewRuns(all))
           updated == Obj([cache.v EXCEPT !.runs = Arr(merged),
                                          !.stats = WriterStats(merged)])
       IN /\ cache' = updated
          /\ files' = [files EXCEPT ![CachePath] = Json(JsonRoundTrip(updated)),
                                    ![PublicPath] = Json(JsonRoundTrip(updated))]
    /\ upc' = "exited"
    /\ outcome' = "written"
    /\ exitCode' = 0
    /\ UNCHANGED <<loadedFrom, latestTimestamp, page, all, updaterRuns,
                   requests>>
    /\ UNCHANGED nonUpdaterVars

\* the operator runs the script again (npm run update:locations)
UpdRunAgain ==
    /\ upc = "exited"
    /\ updaterRuns < MaxUpdaterRuns
    /\ updaterRuns' = updaterRuns + 1
    /\ upc' = "start"
    /\ cache' = Undefined
    /\ loadedFrom' = Null
    /\ latestTimestamp' = 0
    /\ page' = 1
    /\ all' = <<>>
    /\ outcome' = "none"
    /\ exitCode' = 0
    /\ requests' = <<>>
    /\ UNCHANGED files
    /\ UNCHANGED nonUpdaterVars

UpdaterNext ==
    \/ UpdLoadAbort
    \/ UpdLoad
    \/ UpdCutoff
    \/ UpdCutoffThrows
    \/ UpdToken
    \/ UpdTokenFails
    \/ UpdFetchPage
    \/ UpdFetchEnd
    \/ UpdFetchFails
    \/ UpdUpToDate
    \/ UpdMergeWrite
    \/ UpdRunAgain

(***************************************************************************)
(* splitCSVRow(line).  A row of the activity table is built from cells: a  *)
(* cell is a value together with one way of writing it, bare or enclosed   *)
(* in quotes with every quote of the value doubled.                        *)
(***************************************************************************)
Quote == "\""
Comma == ","

\* a parser that knows no doubled quote
IsEscapedQuote_Never(ln, k, inQuotes) == FALSE

\* inQuotes && line[i + 1] === '"', at a quote at index k (from 1)
IsEscapedQuote(ln, k, inQuotes) ==
    inQuotes /\ k + 1 <= Len(ln) /\ ln[k + 1] = Quote

\* the loop of splitCSVRow from index k on, then fields.push(current)
RECURSIVE SplitFrom(_, _, _, _, _)
SplitFrom(ln, k, current, inQuotes, fs) ==
    IF k > Len(ln) THEN Append(fs, current)
    ELSE IF ln[k] = Quote
         THEN IF IsEscapedQuote(ln, k, inQuotes)
              THEN SplitFrom(ln, k + 2, Append(current, Quote), inQuotes, fs)
              ELSE SplitFrom(ln, k + 1, current, ~inQuotes, fs)
    ELSE IF ln[k] = Comma /\ ~inQuotes
         THEN SplitFrom(ln, k + 1, <<>>, inQuotes, Append(fs, current))
    ELSE SplitFrom(ln, k + 1, Append(current, ln[k]), inQuotes, fs)

splitCSVRow(ln) == SplitFrom(ln, 1, <<>>, FALSE, <<>>)

\* the value with every quote doubled
RECURSIVE DoubleQuotes(_)
DoubleQuotes(v) ==
    IF v = <<>> THEN <<>>
    ELSE (IF Head(v) = Quote THEN <<Quote, Quote>> ELSE <<Head(v)>>)
             \o DoubleQuotes(Tail(v))

NeedsQuotes(v) == \E k \in 1..Len(v) : v[k] \in {Quote, Comma}

\* the ways of writing a value as a field of a row
FieldTexts(v) ==
    {<<Quote>> \o DoubleQuotes(v) \o <<Quote>>}
        \cup (IF NeedsQuotes(v) THEN {} ELSE {v})

CsvChars == {"a", Comma, Quote}

\* 5,280 "great" run
GreatRun ==
    <<"5", Comma, "2", "8", "0", " ", Quote, "g", "r", "e", "a", "t", Quote,
      " ", "r", "u", "n">>

CellValues == SeqsUpTo(CsvChars, MaxFieldLen) \cup {GreatRun}

\* a value and one of its texts
Cells == UNION {{[value |-> v, text |-> t] : t \in FieldTexts(v)} : v \in CellValues}

\* the texts of the cells, separated by commas
RECURSIVE JoinCells(_)
JoinCells(cs) ==
    IF Len(cs) = 1 THEN cs[1].text
    ELSE cs[1].text \o <<Comma>> \o JoinCells(Tail(cs))

CsvInit ==
    /\ row \in SeqsUpTo(Cells, MaxFields) \ {<<>>}
    /\ line = JoinCells(row)
    /\ fields = <<>>
    /\ cpc = "line"

CsvIdle ==
    /\ row = <<>>
    /\ line = <<>>
    /\ fields = <<>>
    /\ cpc = "idle"

\* const values = splitCSVRow(lines[i])
SplitRow ==
    /\ cpc = "line"
    /\ fields' = splitCSVRow(line)
    /\ cpc' = "split"
    /\ UNCHANGED <<row, line>>
    /\ UNCHANGED nonCsvVars

CsvNext == SplitRow

(***************************************************************************)
(* The validator (validate-run-locations): main().  fail(message) prints   *)
(* 'Validation failed: ' and the message on stderr and exits with status   *)
(* 1 at once.  A message is the sequence of its parts; an index is the     *)
(* 0-based index forEach passes.                                           *)
(***************************************************************************)
DATA_FILE == PublicPath

\* validateRun(run, index): the message of the first check that fails, or
\* the empty message; this variant does not look at distance and moving_time
RunFailure_SkipsDurations(run, index) ==
    IF ~IsObjectLike(run)
    THEN <<"runs[", index, "] is not an object">>
    ELSE IF ~IsFinite(Get(run, "lat")) \/ ~IsFinite(Get(run, "lng"))
    THEN <<"runs[", index, "] has invalid lat/lng">>
    ELSE IF ~IsString(Get(run, "name"))
    THEN <<"runs[", index, "] missing string name">>
    ELSE IF ~IsArray(Get(run, "media"))
    THEN <<"runs[", index, "] media must be an array">>
    ELSE <<>>

\* validateRun(run, index): the message of the first check that fails, or
\* the empty message
RunFailure(run, index) ==
    IF ~IsObjectLike(run)
    THEN <<"runs[", index, "] is not an object">>
    ELSE IF ~IsFinite(Get(run, "lat")) \/ ~IsFinite(Get(run, "lng"))
    THEN <<"runs[", index, "] has invalid lat/lng">>
    ELSE IF ~IsString(Get(run, "name"))
    THEN <<"runs[", index, "] missing string name">>
    ELSE IF ~IsFinite(Get(run, "distance")) \/ ~IsFinite(Get(run, "moving_time"))
    THEN <<"runs[", index, "] has invalid distance/moving_time">>
    ELSE IF ~IsArray(Get(run, "media"))
    THEN <<"runs[", index, "] media must be an array">>
    ELSE <<>>

\* validateRoute(route, index)
RouteFailure(route, index) ==
    IF ~IsObjectLike(route)
    THEN <<"routes[", index, "] is not an object">>
    ELSE IF ~IsString(Get(route, "name"))
    THEN <<"routes[", index, "] missing string name">>
    ELSE IF ~IsArray(Get(route, "coordinates"))
    THEN <<"routes[", index, "] coordinates must be an array">>
    ELSE <<>>

\* the checks of main on the root, before the runs are walked
RootFailure(parsed) ==
    IF ~IsObjectLike(parsed) THEN <<"root must be an object">>
    ELSE IF ~IsArray(Get(parsed, "runs")) THEN <<"runs must be an array">>
    ELSE IF ~IsArray(Get(parsed, "routes")) THEN <<"routes must be an array">>
    ELSE IF ~IsObjectLike(Get(parsed, "stats")) THEN <<"stats must be an object">>
    ELSE <<>>

\* the checks of main on the stats, after the routes are walked
StatsFailure(stats) ==
    IF ~IsFinite(Get(stats, "totalRuns"))
    THEN <<"stats.totalRuns must be a finite number">>
    ELSE IF ~IsFinite(Get(stats, "totalDistance"))
    THEN <<"stats.totalDistance must be a finite number">>
    ELSE IF ~IsFinite(Get(stats, "uniqueLocations"))
    THEN <<"stats.uniqueLocations must be a finite number">>
    ELSE IF ~IsArray(Get(stats, "dateRange"))
    THEN <<"stats.dateRange must be an array">>
    ELSE <<>>

\* runs as a public artifact may hold them
RunWithout(field) == Obj([RunA.v EXCEPT ![field] = Undefined])
RunWith(field, value) == Obj([RunA.v EXCEPT ![field] = value])

ValidatorRunPool ==
    {RunA, RunB,
     RunWithout("moving_time"), RunWithout("lat"), RunWithout("media"),
     RunWith("lng", Str(<<"1", "2">>)), RunWith("distance", Null),
     RunWith("name", Num(700)),
     Null, Arr(<<>>)}

GoodStats == Obj([totalRuns |-> Num(200), totalDistance |-> Num(1500050),
                  uniqueLocations |-> Num(100), dateRange |-> Arr(<<>>)])

GoodRoute == Obj([name |-> MorningRun,
                  coordinates |-> Arr(<<Arr(<<Num(4050), Num(-7400)>>)>>)])

PublicContents ==
    {Missing, Unparseable}
        \cup {Json(x) : x \in {Null, Num(100), Arr(<<RunA>>), EmptyObject,
                              Artifact(Arr(<<RunA>>), Null, GoodStats),
                              Artifact(Arr(<<RunA>>), Arr(<<>>), Null)}}
        \cup {Json(Artifact(Arr(rs), Arr(<<GoodRoute>>), GoodStats)) :
                 rs \in SeqsUpTo(ValidatorRunPool, MaxRuns)}
        \cup {Json(Artifact(Arr(rs), Arr(rt), st)) :
                 rs \in {<<RunA>>, <<RunA, RunWithout("moving_time")>>},
                 rt \in {<<>>, <<GoodRoute, Null>>,
                         <<Obj([name |-> Null, coordinates |-> Arr(<<>>)])>>,
                         <<Obj([name |-> MorningRun, coordinates |-> Null])>>},
                 st \in {GoodStats, Arr(<<>>), EmptyObject}}
        \cup {Json(Artifact(Arr(<<RunA, RunB>>), Arr(<<GoodRoute>>), st)) :
                 st \in {EmptyObject, Arr(<<>>),
                         Obj([GoodStats.v EXCEPT !.totalRuns = Str(<<"2">>)]),
                         Obj([GoodStats.v EXCEPT !.totalDistance = Null]),
                         Obj([GoodStats.v EXCEPT !.uniqueLocations = Undefined]),
                         Obj([GoodStats.v EXCEPT !.dateRange = Str(IsoA)])}}

ValidatorInit ==
    /\ \E c \in {Missing, Json(WrittenArtifact(<<>>))}, d \in PublicContents :
          files = [p \in Paths |-> IF p = DATA_FILE THEN d
                                   ELSE IF p = CachePath THEN c ELSE Missing]
    /\ vpc = "read"
    /\ vIndex = 0
    /\ stderr = <<>>
    /\ stdout = <<>>
    /\ vExit = -1

ValidatorIdle ==
    /\ vpc = "idle"
    /\ vIndex = 0
    /\ stderr = <<>>
    /\ stdout = <<>>
    /\ vExit = -1

\* the value JSON.parse returned
parsed == files[DATA_FILE].json

\* fail(message): console.error(`Validation failed: ${message}`); process.exit(1)
fail(message) ==
    /\ stderr' = Append(stderr, <<"Validation failed: ">> \o message)
    /\ vExit' = 1
    /\ vpc' = "exited"
    /\ UNCHANGED <<files, vIndex, stdout>>
    /\ UNCHANGED nonValidatorVars

\* catch (error) { fail(`could not read ${DATA_FILE}: ${message}`); }
ValReadFails ==
    /\ vpc = "read"
    /\ files[DATA_FILE].k # "json"
    /\ fail(<<"could not read ", DATA_FILE, ": ", ReadErrorMessage(files[DATA_FILE])>>)

\* one of the four checks on the root fails
ValRootFails ==
    /\ vpc = "read"
    /\ files[DATA_FILE].k = "json"
    /\ RootFailure(parsed) # <<>>
    /\ fail(RootFailure(parsed))

\* the root passes: parsed.runs.forEach(validateRun) begins
ValRoot ==
    /\ vpc = "read"
    /\ files[DATA_FILE].k = "json"
    /\ RootFailure(parsed) = <<>>
    /\ vpc' = "runs"
    /\ vIndex' = 0
    /\ UNCHANGED <<files, stderr, stdout, vExit>>
    /\ UNCHANGED nonValidatorVars

\* validateRun(run, index) returns
ValRun ==
    /\ vpc = "runs"
    /\ vIndex < Len(Get(parsed, "runs").v)
    /\ RunFailure(Get(parsed, "runs").v[vIndex + 1], vIndex) = <<>>
    /\ vIndex' = vIndex + 1
    /\ UNCHANGED <<files, vpc, stderr, stdout, vExit>>
    /\ UNCHANGED nonValidatorVars

\* validateRun(run, index) fails
ValRunFails ==
    /\ vpc = "runs"
    /\ vIndex < Len(Get(parsed, "runs").v)
    /\ RunFailure(Get(parsed, "runs").v[vIndex + 1], vIndex) # <<>>
    /\ fail(RunFailure(Get(parsed, "runs").v[vIndex + 1], vIndex))

\* parsed.routes.forEach(validateRoute) begins
ValRunsDone ==
    /\ vpc = "runs"
    /\ vIndex = Len(Get(parsed, "runs").v)
    /\ vpc' = "routes"
    /\ vIndex' = 0
    /\ UNCHANGED <<files, stderr, stdout, vExit>>
    /\ UNCHANGED nonValidatorVars

\* validateRoute(route, index) returns
ValRoute ==
    /\ vpc = "routes"
    /\ vIndex < Len(Get(parsed, "routes").v)
    /\ RouteFailure(Get(parsed, "routes").v[vIndex + 1], vIndex) = <<>>
    /\ vIndex' = vIndex + 1
    /\ UNCHANGED <<files, vpc, stderr, stdout, vExit>>
    /\ UNCHANGED nonValidatorVars

\* validateRoute(route, index) fails
ValRouteFails ==
    /\ vpc = "routes"
    /\ vIndex < Len(Get(parsed, "routes").v)
    /\ RouteFailure(Get(parsed, "routes").v[vIndex + 1], vIndex) # <<>>
    /\ fail(RouteFailure(Get(parsed, "routes").v[vIndex + 1], vIndex))

\* one of the four checks on the stats fails
ValStatsFails ==
    /\ vpc = "routes"
    /\ vIndex = Len(Get(parsed, "routes").v)
    /\ StatsFailure(Get(parsed, "stats")) # <<>>
    /\ fail(StatsFailure(Get(parsed, "stats")))

\* console.log(`Validation passed: ${runs.length} runs, ${routes.length} routes (${DATA_FILE})`)
ValPassed ==
    /\ vpc = "routes"
    /\ vIndex = Len(Get(parsed, "routes").v)
    /\ StatsFailure(Get(parsed, "stats")) = <<>>
    /\ stdout' = Append(stdout, <<"Validation passed: ", Len(Get(parsed, "runs").v),
                                  " runs, ", Len(Get(parsed, "routes").v),
                                  " routes (", DATA_FILE, ")">>)
    /\ vExit' = 0
    /\ vpc' = "exited"
    /\ UNCHANGED <<files, vIndex, stderr>>
    /\ UNCHANGED nonValidatorVars

ValidatorNext ==
    \/ ValReadFails
    \/ ValRootFails
    \/ ValRoot
    \/ ValRun
    \/ ValRunFails
    \/ ValRunsDone
    \/ ValRoute
    \/ ValRouteFails
    \/ ValStatsFails
    \/ ValPassed

(***************************************************************************)
(* The track XML extractors.  A track text is the sequence of its          *)
(* elements: a track point written <trkpt lat="..." lon="..."> with its    *)
(* two attribute texts, or another element, which the pattern              *)
(* /<trkpt\s+lat="([^"]+)"\s+lon="([^"]+)"/ does not match.                *)
(***************************************************************************)
InfinityText == <<"I", "n", "f", "i", "n", "i", "t", "y">>

\* the longest prefix of s made of decimal digits
RECURSIVE DigitPrefix(_)
DigitPrefix(s) ==
    IF s # <<>> /\ Head(s) \in DigitChars
    THEN <<Head(s)>> \o DigitPrefix(Tail(s))
    ELSE <<>>

\* parseFloat(s): leading white space, a sign, then Infinity or the longest
\* decimal literal; whatever follows is ignored; in hundredths
parseFloat(s) ==
    LET t == TrimStart(s)
        signed == t # <<>> /\ Head(t) \in {"-", "+"}
        sign == IF t # <<>> /\ Head(t) = "-" THEN -1 ELSE 1
        u == IF signed THEN Tail(t) ELSE t
        whole == DigitPrefix(u)
        rest == SubSeq(u, Len(whole) + 1, Len(u))
        fraction == IF rest # <<>> /\ Head(rest) = "."
                    THEN DigitPrefix(Tail(rest))
                    ELSE <<>>
    IN IF StartsWith(u, InfinityText)
       THEN (IF sign = 1 THEN PosInf ELSE NegInf)
       ELSE IF whole = <<>> /\ fraction = <<>> THEN NaN
       ELSE Num(sign * (DigitsValue(whole) * 100
                          + DigitsValue(SubSeq(fraction \o <<"0", "0">>, 1, 2))))

\* isNaN(x), x a number
isNaN(x) == x.t = "nan"

TrackPoint(lat, lon) == [tag |-> "trkpt", lat |-> lat, lon |-> lon]
OtherElement == [tag |-> "wpt", lat |-> <<"1">>, lon |-> <<"1">>]

\* the elements the pattern matches, in document order
PatternMatches(text) ==
    SelectSeq(text, LAMBDA el : el.tag = "trkpt" /\ el.lat # <<>> /\ el.lon # <<>>)

\* !isNaN(lat) && !isNaN(lng) && lat !== 0 && lng !== 0
KeepsPoint(lat, lng) ==
    ~isNaN(lat) /\ ~isNaN(lng) /\ lat # Num(0) /\ lng # Num(0)

\* parseGPXCoordinates(gpxText)
parseGPXCoordinates(text) ==
    LET kept == SelectSeq(PatternMatches(text),
                          LAMBDA el : KeepsPoint(parseFloat(el.lat), parseFloat(el.lon)))
    IN [k \in 1..Len(kept) |-> Arr(<<parseFloat(kept[k].lat), parseFloat(kept[k].lon)>>)]

\* parseGPXFirstCoord(gpxText)
parseGPXFirstCoord(text) ==
    IF PatternMatches(text) = <<>> THEN Null
    ELSE LET lat == parseFloat(PatternMatches(text)[1].lat)
             lng == parseFloat(PatternMatches(text)[1].lon)
         IN IF isNaN(lat) \/ isNaN(lng) \/ (lat = Num(0) /\ lng = Num(0))
            THEN Null
            ELSE Obj([lat |-> lat, lng |-> lng])

AttributeTexts ==
    {<<"4", "0", ".", "5">>, <<"-", "7", "4">>, <<"0">>, <<"0", ".", "0", "0">>,
     <<"a", "b", "c">>, InfinityText, <<"5", "x">>}

TrackElements ==
    {TrackPoint(a, b) : a \in AttributeTexts, b \in AttributeTexts} \cup {OtherElement}

GpxInit ==
    /\ gpxText \in SeqsUpTo(TrackElements, MaxTrackPoints)
    /\ firstCoord = Undefined
    /\ allCoords = <<>>
    /\ gpc = "text"

GpxIdle ==
    /\ gpxText = <<>>
    /\ firstCoord = Undefined
    /\ allCoords = <<>>
    /\ gpc = "idle"

\* coord = parseGPXFirstCoord(gpxText)
ParseFirstCoord ==
    /\ gpc = "text"
    /\ firstCoord' = parseGPXFirstCoord(gpxText)
    /\ gpc' = "first"
    /\ UNCHANGED <<gpxText, allCoords>>
    /\ UNCHANGED nonGpxVars

\* const coordinates = parseGPXCoordinates(gpxText)
ParseCoordinates ==
    /\ gpc = "first"
    /\ allCoords' = parseGPXCoordinates(gpxText)
    /\ gpc' = "all"
    /\ UNCHANGED <<gpxText, firstCoord>>
    /\ UNCHANGED nonGpxVars

GpxNext ==
    \/ ParseFirstCoord
    \/ ParseCoordinates

(***************************************************************************)
(* The batch exporter (process-strava-export): helpers of main().          *)
(* A table is the sequence of its lines, a line the sequence of cells      *)
(* splitCSVRow returns for it; the cells of the first line are the column  *)
(* names.  Dates are read in UTC.                                          *)
(***************************************************************************)
\* String.prototype.endsWith
EndsWith(s, suffix) ==
    Len(s) >= Len(suffix) /\ SubSeq(s, Len(s) - Len(suffix) + 1, Len(s)) = suffix

\* String.prototype.split(ch), ch one character
RECURSIVE SplitOn(_, _)
SplitOn(s, ch) ==
    IF \A k \in 1..Len(s) : s[k] # ch THEN <<s>>
    ELSE LET k == CHOOSE j \in 1..Len(s) :
                      s[j] = ch /\ \A m \in 1..(j - 1) : s[m] # ch
         IN <<SubSeq(s, 1, k - 1)>> \o SplitOn(SubSeq(s, k + 1, Len(s)), ch)

\* path.basename(p): the last segment, trailing slashes dropped
RECURSIVE basename(_)
basename(p) ==
    IF p # <<>> /\ Last(p) = "/" THEN basename(SubSeq(p, 1, Len(p) - 1))
    ELSE Last(SplitOn(p, "/"))

\* mediaStr.replace(/^"|"$/g, '')
StripQuotes(s) ==
    LET t == IF s # <<>> /\ Head(s) = Quote THEN Tail(s) ELSE s
    IN IF t # <<>> /\ Last(t) = Quote THEN SubSeq(t, 1, Len(t) - 1) ELSE t

MediaDir == <<"m", "e", "d", "i", "a", "/">>

\* parseMediaField(mediaStr), mediaStr a string or undefined
parseMediaField(mediaStr) ==
    IF Falsy(mediaStr) \/ mediaStr.v = <<Quote, Quote>> THEN <<>>
    ELSE IF StripQuotes(mediaStr.v) = <<>> THEN <<>>
    ELSE LET parts == SplitOn(StripQuotes(mediaStr.v), "|")
             trimmed == [k \in 1..Len(parts) |-> Trim(parts[k])]
         IN SelectSeq(trimmed, LAMBDA m : Len(m) > 0 /\ StartsWith(m, MediaDir))

\* parseStravaDate(dateStr): the ISO string, or null
parseStravaDate(dateStr) ==
    IF IsString(dateStr) /\ IsValidDate(dateStr.v)
    THEN Str(ToISOString(GetTime(dateStr.v)))
    ELSE Null

\* parseFloat(cell) || 0
ParseFloatOrZero(cell) ==
    LET n == IF IsString(cell) THEN parseFloat(cell.v) ELSE NaN
    IN IF Falsy(n) THEN Num(0) ELSE n

\* parseFITFirstCoord(filePath) on a file that decodes: the first record
\* whose position_lat and position_long are defined, not null and not 0
parseFITFirstCoord(records) ==
    LET located == SelectSeq(records,
                       LAMBDA r : /\ r.position_lat \notin {Undefined, Null, Num(0)}
                                  /\ r.position_long \notin {Undefined, Null, Num(0)})
    IN IF located = <<>> THEN Null
       ELSE Obj([lat |-> located[1].position_lat, lng |-> located[1].position_long])

\* the points result.push(coords[i]) collects, i from k (0-based) in steps
RECURSIVE EveryNth(_, _, _)
EveryNth(cs, k, n) ==
    IF k >= Len(cs) THEN <<>> ELSE <<cs[k + 1]>> \o EveryNth(cs, k + n, n)

\* simplifyCoords(coords, maxPoints) as one value
simplifyCoords(cs, mp) ==
    IF Len(cs) <= mp THEN cs
    ELSE LET n == CeilDiv(Len(cs), mp)
             picked == EveryNth(cs, 0, n)
         IN IF (Len(cs) - 1) % n # 0 THEN Append(picked, Last(cs)) ELSE picked

\* lines.filter((l) => l.trim().length > 0)
IsBlankLine(cells) == Len(cells) = 1 /\ Trim(cells[1]) = <<>>

\* the row object of one line: row[headers[j]] = values[j] || ''
RowObject(headers, values) ==
    Obj([h \in {headers[j] : j \in 1..Len(headers)} |->
            LET j == CHOOSE m \in 1..Len(headers) :
                         headers[m] = h /\ \A n \in (m + 1)..Len(headers) : headers[n] # h
            IN IF j <= Len(values) THEN Str(values[j]) ELSE Str(<<>>)])

\* parseCSV(text)
parseCSV(table) ==
    LET lines == SelectSeq(table, LAMBDA l : ~IsBlankLine(l))
    IN IF Len(lines) = 0 THEN <<>>
       ELSE [k \in 1..(Len(lines) - 1) |-> RowObject(lines[1], lines[k + 1])]

\* simplifyCoords(coordinates, 200)
RoutePointLimit == 200

\* the column names main() reads
ActivityDateColumn ==
    <<"A", "c", "t", "i", "v", "i", "t", "y", " ", "D", "a", "t", "e">>
ActivityNameColumn ==
    <<"A", "c", "t", "i", "v", "i", "t", "y", " ", "N", "a", "m", "e">>
ActivityTypeColumn ==
    <<"A", "c", "t", "i", "v", "i", "t", "y", " ", "T", "y", "p", "e">>
ActivityGearColumn ==
    <<"A", "c", "t", "i", "v", "i", "t", "y", " ", "G", "e", "a", "r">>
DistanceColumn == <<"D", "i", "s", "t", "a", "n", "c", "e">>
MovingTimeColumn == <<"M", "o", "v", "i", "n", "g", " ", "T", "i", "m", "e">>
FilenameColumn == <<"F", "i", "l", "e", "n", "a", "m", "e">>
MediaColumn == <<"M", "e", "d", "i", "a">>
RouteNameColumn == <<"R", "o", "u", "t", "e", " ", "N", "a", "m", "e">>
RouteFilenameColumn ==
    <<"R", "o", "u", "t", "e", " ", "F", "i", "l", "e", "n", "a", "m", "e">>

\* the first line of activities.csv: the export has two Distance columns,
\* kilometres first and metres second
ActivityHeader ==
    <<ActivityDateColumn, ActivityNameColumn, ActivityTypeColumn, DistanceColumn,
      MovingTimeColumn, FilenameColumn, MediaColumn, ActivityGearColumn,
      DistanceColumn>>
RouteHeader == <<RouteNameColumn, RouteFilenameColumn>>

\* the files of Strava_Export next to the two tables
GpxFile(text) == [kind |-> "gpx", text |-> text, records |-> <<>>]
FitFile(records) == [kind |-> "fit", text |-> <<>>, records |-> records]
CorruptFile == [kind |-> "corrupt", text |-> <<>>, records |-> <<>>]
FitRecord(lat, long) == [position_lat |-> lat, position_long |-> long]

FileA == <<"a", ".", "g", "p", "x">>
FileZ == <<"z", ".", "g", "p", "x">>
FileF == <<"f", ".", "f", "i", "t", ".", "g", "z">>
FileC == <<"c", ".", "f", "i", "t", ".", "g", "z">>
FileX == <<"x", ".", "g", "p", "x">>
FileR == <<"r", ".", "g", "p", "x">>
FileE == <<"e", ".", "g", "p", "x">>

ExportFiles ==
    (FileA :> GpxFile(<<TrackPoint(<<"4", "0", ".", "5">>, <<"-", "7", "4">>)>>))
    @@ (FileZ :> GpxFile(<<TrackPoint(<<"0">>, <<"0">>),
                           TrackPoint(<<"4", "0", ".", "5">>, <<"-", "7", "4">>)>>))
    @@ (FileF :> FitFile(<<FitRecord(Undefined, Undefined),
                           FitRecord(Num(0), Num(500)),
                           FitRecord(Num(4052), Num(-7398))>>))
    @@ (FileC :> CorruptFile)
    @@ (FileR :> GpxFile(<<TrackPoint(<<"4", "0", ".", "5">>, <<"-", "7", "4">>),
                           OtherElement,
                           TrackPoint(<<"4", "0", ".", "6">>, <<"-", "7", "4">>)>>))
    @@ (FileE :> GpxFile(<<OtherElement>>))

\* the files of Strava_Export/media, by name; a media file of either
\* directory is a name with its content, the export's or an older one
PhotoP == <<"p", ".", "j", "p", "g">>
PhotoQ == <<"q", ".", "j", "p", "g">>
ExportMedia == {PhotoP}
MediaFile(name, content) == [name |-> name, content |-> content]
FileNames(dir) == {f.name : f \in dir}

\* coord of one run: by the extension of its file
CoordOfFile(filename) ==
    IF EndsWith(filename, <<".", "g", "p", "x">>)
    THEN parseGPXFirstCoord(ExportFiles[filename].text)
    ELSE IF EndsWith(filename, <<".", "f", "i", "t", ".", "g", "z">>)
    THEN (IF ExportFiles[filename].kind = "fit"
          THEN parseFITFirstCoord(ExportFiles[filename].records)
          ELSE Null)
    ELSE Null

\* x || fallback
OrElse(x, fallback) == IF Falsy(x) THEN fallback ELSE x

\* the record runLocations.push(...) appends for a run with a coordinate
ExportedRun(run, coord) ==
    LET media == parseMediaField(Get(run, MediaColumn))
    IN Obj([lat |-> Get(coord, "lat"),
            lng |-> Get(coord, "lng"),
            name |-> OrElse(Get(run, ActivityNameColumn), Str(RunText)),
            date |-> OrElse(parseStravaDate(Get(run, ActivityDateColumn)),
                            Get(run, ActivityDateColumn)),
            distance |-> ParseFloatOrZero(Get(run, DistanceColumn)),
            moving_time |-> ParseFloatOrZero(Get(run, MovingTimeColumn)),
            media |-> Arr([k \in 1..Len(media) |->
                              Str(MediaPrefix \o basename(media[k]))]),
            gear |-> OrElse(Get(run, ActivityGearColumn), Str(<<>>))])

\* mediaRefs: the media of every exported run
MediaRefs(runs) ==
    UNION {{Get(runs[k], "media").v[m].v : m \in 1..Len(Get(runs[k], "media").v)} :
              k \in 1..Len(runs)}

\* the copy loop without the test of the destination
MediaToCopy_IgnoresDestination(runs, present) ==
    {basename(m) : m \in MediaRefs(runs)} \cap ExportMedia

\* the file names step 5 copies: in the export and not yet in public/strava-media
MediaToCopy(runs, present) ==
    {basename(m) : m \in MediaRefs(runs)} \cap (ExportMedia \ present)

\* public/strava-media after copyFileSync(src, dest) for each of them:
\* copyFileSync replaces a destination that exists
CopyMedia(runs, dir) ==
    LET copied == MediaToCopy(runs, FileNames(dir))
    IN {f \in dir : f.name \notin copied}
           \cup {MediaFile(n, "export") : n \in copied}

\* a line of activities.csv
ActivityRow(date, name, type, time, filename, media, gear, metres) ==
    <<date, name, type, <<"5">>, time, filename, media, gear, metres>>

MorningText == <<"M", "o", "r", "n", "i", "n", "g">>
ShoesText == <<"S", "h", "o", "e", "s">>
RideText == <<"R", "i", "d", "e">>
TwoPhotos == MediaDir \o PhotoP \o <<"|">> \o MediaDir \o PhotoQ
\* a photo whose file name holds a space
SpacedPhoto == <<"m", "y", " ", "p", ".", "j", "p", "g">>

\* a run recorded in a.gpx, with two photos
RunRowA ==
    ActivityRow(CsvDateB, MorningText, RunText, <<"1", "8", "0">>, FileA,
                TwoPhotos, ShoesText, <<"5", "0", "0", "0">>)

ActivityRows ==
    {RunRowA,
     ActivityRow(GarbageText, <<>>, RunText, GarbageText, FileF,
                 <<>>, <<>>, GarbageText),
     ActivityRow(CsvDateB, MorningText, RunText, <<"6", "0">>, FileZ,
                 MediaDir \o PhotoP, <<>>, <<"9">>),
     ActivityRow(CsvDateB, MorningText, RunText, <<"6", "0">>, FileC,
                 <<>>, <<>>, <<"9">>),
     ActivityRow(CsvDateB, MorningText, RunText, <<"6", "0">>, FileX,
                 <<>>, <<>>, <<"9">>),
     ActivityRow(CsvDateB, MorningText, RunText, <<"6", "0">>, FileA,
                 MediaDir \o SpacedPhoto, <<>>, <<"9">>),
     <<CsvDateB, MorningText, RunText>>,
     ActivityRow(CsvDateB, MorningText, RideText, <<"6", "0">>, FileA,
                 <<>>, <<>>, <<"9">>),
     <<<<>>>>}

RouteRowCells == {<<MorningText, FileR>>, <<MorningText, FileE>>,
                  <<MorningText, FileX>>, <<MorningText>>}

MissingCsv == [k |-> "missing", lines |-> <<>>]
Csv(lines) == [k |-> "csv", lines |-> lines]

ExporterInit ==
    /\ activitiesCsv \in
           {MissingCsv} \cup {Csv(<<ActivityHeader>> \o rs) : rs \in SeqsUpTo(ActivityRows, MaxRows)}
    /\ routesCsv \in
           {MissingCsv} \cup {Csv(<<RouteHeader>> \o rs) : rs \in SeqsUpTo(RouteRowCells, MaxRouteRows)}
    /\ \E old \in {Missing, Json(ExportedArtifact(<<ExporterRunA>>))} :
           files = [p \in Paths |-> IF p = OtherPath THEN Missing ELSE old]
    /\ publicMedia \in {{}, {MediaFile(PhotoP, "old")}}
    /\ epc = "start"
    /\ expRuns = <<>>
    /\ routeRows = <<>>
    /\ processed = 0
    /\ runLocations = <<>>
    /\ expRoutes = <<>>
    /\ withGPS = 0
    /\ withMedia = 0
    /\ expErrors = 0
    /\ copiedMedia = 0
    /\ expExit = -1

ExporterIdle ==
    /\ activitiesCsv = MissingCsv
    /\ routesCsv = MissingCsv
    /\ publicMedia = {}
    /\ epc = "idle"
    /\ expRuns = <<>>
    /\ routeRows = <<>>
    /\ processed = 0
    /\ runLocations = <<>>
    /\ expRoutes = <<>>
    /\ withGPS = 0
    /\ withMedia = 0
    /\ expErrors = 0
    /\ copiedMedia = 0
    /\ expExit = -1

\* readFileSync of activities.csv throws: main().catch exits with 1
ExpReadActivitiesFails ==
    /\ epc = "start"
    /\ activitiesCsv = MissingCsv
    /\ epc' = "exited"
    /\ expExit' = 1
    /\ UNCHANGED <<files, activitiesCsv, routesCsv, publicMedia, expRuns, routeRows,
                   processed, runLocations, expRoutes, withGPS, withMedia, expErrors,
                   copiedMedia>>
    /\ UNCHANGED nonExporterVars

\* steps 1 and 2: parse activities.csv, keep the rows of type Run
ExpReadActivities ==
    /\ epc = "start"
    /\ activitiesCsv # MissingCsv
    /\ expRuns' = SelectSeq(parseCSV(activitiesCsv.lines),
                            LAMBDA a : /\ IsString(Get(a, ActivityTypeColumn))
                                       /\ Get(a, ActivityTypeColumn).v = RunText)
    /\ epc' = "runs"
    /\ UNCHANGED <<files, activitiesCsv, routesCsv, publicMedia, routeRows,
                   processed, runLocations, expRoutes, withGPS, withMedia, expErrors,
                   copiedMedia, expExit>>
    /\ UNCHANGED nonExporterVars

\* step 3: one iteration of for (const run of runs)
ExpRun ==
    /\ epc = "runs"
    /\ processed < Len(expRuns)
    /\ processed' = processed + 1
    /\ LET run == expRuns[processed + 1]
           filename == Get(run, FilenameColumn)
           coord == CoordOfFile(filename.v)
       IN IF Falsy(filename) \/ filename.v \notin DOMAIN ExportFiles
          THEN /\ expErrors' = expErrors + 1
               /\ UNCHANGED <<runLocations, withGPS, withMedia>>
          ELSE IF Falsy(coord)
          THEN UNCHANGED <<runLocations, withGPS, withMedia, expErrors>>
          ELSE /\ withGPS' = withGPS + 1
               /\ withMedia' = IF Len(parseMediaField(Get(run, MediaColumn))) > 0
                               THEN withMedia + 1
                               ELSE withMedia
               /\ runLocations' = Append(runLocations, ExportedRun(run, coord))
               /\ UNCHANGED expErrors
    /\ UNCHANGED <<files, activitiesCsv, routesCsv, publicMedia, expRuns, routeRows,
                   expRoutes, copiedMedia, epc, expExit>>
    /\ UNCHANGED nonExporterVars

\* readFileSync of routes.csv throws: main().catch exits with 1
ExpReadRoutesFails ==
    /\ epc = "runs"
    /\ processed = Len(expRuns)
    /\ routesCsv = MissingCsv
    /\ epc' = "exited"
    /\ expExit' = 1
    /\ UNCHANGED <<files, activitiesCsv, routesCsv, publicMedia, expRuns, routeRows,
                   processed, runLocations, expRoutes, withGPS, withMedia, expErrors,
                   copiedMedia>>
    /\ UNCHANGED nonExporterVars

\* step 4: parse routes.csv
ExpReadRoutes ==
    /\ epc = "runs"
    /\ processed = Len(expRuns)
    /\ routesCsv # MissingCsv
    /\ routeRows' = parseCSV(routesCsv.lines)
    /\ epc' = "routes"
    /\ UNCHANGED <<files, activitiesCsv, routesCsv, publicMedia, expRuns,
                   processed, runLocations, expRoutes, withGPS, withMedia, expErrors,
                   copiedMedia, expExit>>
    /\ UNCHANGED nonExporterVars

\* step 4: one iteration of for (const row of routeRows); routeRows holds
\* the rows still to visit
ExpRoute ==
    /\ epc = "routes"
    /\ routeRows # <<>>
    /\ routeRows' = Tail(routeRows)
    /\ LET routeRow == Head(routeRows)
           routeFile == Get(routeRow, RouteFilenameColumn)
           coordinates == parseGPXCoordinates(ExportFiles[routeFile.v].text)
       IN IF Falsy(routeFile) \/ routeFile.v \notin DOMAIN ExportFiles
          THEN UNCHANGED expRoutes
          ELSE IF Len(coordinates) > 0
          THEN expRoutes' = Append(expRoutes,
                   Obj([name |-> Get(routeRow, RouteNameColumn),
                        coordinates |-> Arr(simplifyCoords(coordinates, RoutePointLimit))]))
          ELSE UNCHANGED expRoutes
    /\ UNCHANGED <<files, activitiesCsv, routesCsv, publicMedia, expRuns,
                   processed, runLocations, withGPS, withMedia, expErrors,
                   copiedMedia, epc, expExit>>
    /\ UNCHANGED nonExporterVars

\* step 5: copy the referenced media that exist in the export and not yet
\* in public/strava-media
ExpCopyMedia ==
    /\ epc = "routes"
    /\ routeRows = <<>>
    /\ publicMedia' = CopyMedia(runLocations, publicMedia)
    /\ copiedMedia' = Cardinality(MediaToCopy(runLocations, FileNames(publicMedia)))
    /\ epc' = "copied"
    /\ UNCHANGED <<files, activitiesCsv, routesCsv, expRuns, routeRows,
                   processed, runLocations, expRoutes, withGPS, withMedia, expErrors,
                   expExit>>
    /\ UNCHANGED nonExporterVars

\* steps 6 and 7: writeFileSync(CACHE_FILE, JSON.stringify(output))
ExpWrite ==
    /\ epc = "copied"
    /\ files' = [files EXCEPT ![CachePath] =
                    Json(JsonRoundTrip(Artifact(Arr(runLocations), Arr(expRoutes),
                                                WriterStats(runLocations))))]
    /\ epc' = "exited"
    /\ expExit' = 0
    /\ UNCHANGED <<activitiesCsv, routesCsv, publicMedia, expRuns, routeRows,
                   processed, runLocations, expRoutes, withGPS, withMedia, expErrors,
                   copiedMedia>>
    /\ UNCHANGED nonExporterVars

ExporterNext ==
    \/ ExpReadActivitiesFails
    \/ ExpReadActivities
    \/ ExpRun
    \/ ExpReadRoutesFails
    \/ ExpReadRoutes
    \/ ExpRoute
    \/ ExpCopyMedia
    \/ ExpWrite

(***************************************************************************)
(* The Strava client of the site: getAccessToken() and its module-level    *)
(* token cache.  The callers (getAthleteStats, getRecentActivities) are    *)
(* async and may be in flight together; each awaits the token endpoint,    *)
(* which answers OK with fresh tokens or not OK.  Times are in seconds.    *)
(***************************************************************************)
\* cachedTokens.expires_at > Date.now() / 1000 + 300
TokenMargin == 300

Callers == 1..MaxCallers

\* the access tokens the endpoint hands out, in order
TokenTexts == <<<<"t", "1">>, <<"t", "2">>, <<"t", "3">>, <<"t", "4">>>>

\* the body of an OK response: tokens that expire life seconds from now
FreshTokens(k, life) ==
    Obj([access_token |-> Str(TokenTexts[k]),
         refresh_token |-> Str(<<"r">>),
         expires_at |-> Num((now + life) * 100)])

\* the test without the margin
CacheIsFresh_NoMargin ==
    /\ ~Falsy(cachedTokens)
    /\ Get(cachedTokens, "expires_at").v > now * 100

\* cachedTokens && cachedTokens.expires_at > Date.now() / 1000 + 300
CacheIsFresh ==
    /\ ~Falsy(cachedTokens)
    /\ Get(cachedTokens, "expires_at").v > (now + TokenMargin) * 100

TokenInit ==
    /\ cachedTokens = Null
    /\ now = 0
    /\ ticks = 0
    /\ tpc = [c \in Callers |-> "idle"]
    /\ tokenResult = [c \in Callers |-> Undefined]
    /\ tokenFetches = 0

TokenIdle ==
    /\ cachedTokens = Null
    /\ now = 0
    /\ ticks = 0
    /\ tpc = <<>>
    /\ tokenResult = <<>>
    /\ tokenFetches = 0

\* return cachedTokens.access_token
TokReturnCached(c) ==
    /\ tpc[c] = "idle"
    /\ CacheIsFresh
    /\ tokenResult' = [tokenResult EXCEPT ![c] = Get(cachedTokens, "access_token")]
    /\ tpc' = [tpc EXCEPT ![c] = "returned"]
    /\ UNCHANGED <<cachedTokens, now, ticks, tokenFetches>>
    /\ UNCHANGED nonTokenVars

\* const response = await fetch('https://www.strava.com/api/v3/oauth/token', ...)
TokRequest(c) ==
    /\ tpc[c] = "idle"
    /\ ~CacheIsFresh
    /\ tokenFetches < MaxRefreshes
    /\ tokenFetches' = tokenFetches + 1
    /\ tpc' = [tpc EXCEPT ![c] = "fetching"]
    /\ UNCHANGED <<cachedTokens, now, ticks, tokenResult>>
    /\ UNCHANGED nonTokenVars

\* if (!response.ok) throw new Error(`Strava token refresh failed: ...`)
TokRefreshFails(c) ==
    /\ tpc[c] = "fetching"
    /\ tpc' = [tpc EXCEPT ![c] = "thrown"]
    /\ UNCHANGED <<cachedTokens, now, ticks, tokenResult, tokenFetches>>
    /\ UNCHANGED nonTokenVars

\* cachedTokens = await response.json(); return cachedTokens!.access_token
TokRefreshed(c) ==
    /\ tpc[c] = "fetching"
    /\ \E life \in {TokenMargin, TokenMargin + 1, 2 * TokenMargin} :
          cachedTokens' = FreshTokens(tokenFetches, life)
    /\ tokenResult' = [tokenResult EXCEPT ![c] = Get(cachedTokens', "access_token")]
    /\ tpc' = [tpc EXCEPT ![c] = "returned"]
    /\ UNCHANGED <<now, ticks, tokenFetches>>
    /\ UNCHANGED nonTokenVars

\* the caller goes on; it may call again later
TokCallerDone(c) ==
    /\ tpc[c] \in {"returned", "thrown"}
    /\ tpc' = [tpc EXCEPT ![c] = "idle"]
    /\ tokenResult' = [tokenResult EXCEPT ![c] = Undefined]
    /\ UNCHANGED <<cachedTokens, now, ticks, tokenFetches>>
    /\ UNCHANGED nonTokenVars

\* time passes
TokTick ==
    /\ ticks < MaxTicks
    /\ ticks' = ticks + 1
    /\ \E d \in {1, TokenMargin} : now' = now + d
    /\ UNCHANGED <<cachedTokens, tpc, tokenResult, tokenFetches>>
    /\ UNCHANGED nonTokenVars

TokenNext ==
    \/ \E c \in Callers : TokReturnCached(c)
    \/ \E c \in Callers : TokRequest(c)
    \/ \E c \in Callers : TokRefreshFails(c)
    \/ \E c \in Callers : TokRefreshed(c)
    \/ \E c \in Callers : TokCallerDone(c)
    \/ TokTick

NormIdle ==
    /\ raw = Undefined
    /\ normalized = Undefined
    /\ renormalized = Undefined
    /\ npc = "idle"

InitSimplify == SimplifyInit /\ NormIdle /\ ReaderIdle /\ UpdaterIdle /\ CsvIdle /\ ValidatorIdle /\ GpxIdle /\ ExporterIdle /\ TokenIdle
SpecSimplify == InitSimplify /\ [][SimplifyNext]_vars

InitNormalize == NormInit /\ SimplifyIdle /\ ReaderIdle /\ UpdaterIdle /\ CsvIdle /\ ValidatorIdle /\ GpxIdle /\ ExporterIdle /\ TokenIdle
SpecNormalize == InitNormalize /\ [][NormNext]_vars

InitReader == ReaderInit /\ SimplifyIdle /\ NormIdle /\ UpdaterIdle /\ CsvIdle /\ ValidatorIdle /\ GpxIdle /\ ExporterIdle /\ TokenIdle
SpecReader == InitReader /\ [][ReaderNext]_vars

InitCsv == CsvInit /\ SimplifyIdle /\ NormIdle /\ ReaderIdle /\ UpdaterIdle /\ ValidatorIdle /\ GpxIdle /\ ExporterIdle /\ TokenIdle
SpecCsv == InitCsv /\ [][CsvNext]_vars

InitGpx == GpxInit /\ SimplifyIdle /\ NormIdle /\ ReaderIdle /\ UpdaterIdle /\ CsvIdle /\ ValidatorIdle /\ ExporterIdle /\ TokenIdle
SpecGpx == InitGpx /\ [][GpxNext]_vars

\* the reader is not called while the updater or the validator runs
ReadIdle ==
    /\ paths = <<>>
    /\ attempt = 0
    /\ errors = <<>>
    /\ readResult = Undefined
    /\ rpc = "idle"

InitUpdater == UpdaterInit /\ SimplifyIdle /\ NormIdle /\ ReadIdle /\ CsvIdle /\ ValidatorIdle /\ GpxIdle /\ ExporterIdle /\ TokenIdle
SpecUpdater == InitUpdater /\ [][UpdaterNext]_vars

InitValidator == ValidatorInit /\ SimplifyIdle /\ NormIdle /\ ReadIdle /\ UpdaterIdle /\ CsvIdle /\ GpxIdle /\ ExporterIdle /\ TokenIdle
SpecValidator == InitValidator /\ [][ValidatorNext]_vars

InitExporter == ExporterInit /\ SimplifyIdle /\ NormIdle /\ ReadIdle /\ UpdaterIdle /\ CsvIdle /\ ValidatorIdle /\ GpxIdle /\ TokenIdle
SpecExporter == InitExporter /\ [][ExporterNext]_vars

InitToken == TokenInit /\ SimplifyIdle /\ NormIdle /\ ReaderIdle /\ UpdaterIdle /\ CsvIdle /\ ValidatorIdle /\ GpxIdle /\ ExporterIdle
SpecToken == InitToken /\ [][TokenNext]_vars

(***************************************************************************)
(* The two writers run one after the other (README, data pipeline steps 2  *)
(* and 3): the exporter, then the updater, then the exporter again over    *)
(* the same export.  They never run at the same time.                      *)
(***************************************************************************)
WritersInit ==
    /\ ExporterInit
    /\ activitiesCsv \in {MissingCsv, Csv(<<ActivityHeader>>),
                          Csv(<<ActivityHeader, RunRowA>>)}
    /\ routesCsv \in {MissingCsv, Csv(<<RouteHeader, <<MorningText, FileR>>>>)}
    /\ publicMedia = {}

\* npm run update:locations, once the exporter has exited
StartUpdater ==
    /\ epc = "exited"
    /\ upc = "idle"
    /\ upc' = "start"
    /\ updaterRuns' = 1
    /\ UNCHANGED <<files, cache, loadedFrom, latestTimestamp, page, all, outcome,
                   exitCode, requests>>
    /\ UNCHANGED nonUpdaterVars

\* npm run seed:locations again, once the updater has exited
RerunExporter ==
    /\ epc = "exited"
    /\ upc = "exited"
    /\ epc' = "start"
    /\ expRuns' = <<>>
    /\ routeRows' = <<>>
    /\ processed' = 0
    /\ runLocations' = <<>>
    /\ expRoutes' = <<>>
    /\ withGPS' = 0
    /\ withMedia' = 0
    /\ expErrors' = 0
    /\ copiedMedia' = 0
    /\ expExit' = -1
    /\ UNCHANGED <<files, activitiesCsv, routesCsv, publicMedia>>
    /\ UNCHANGED nonExporterVars

WritersNext ==
    \/ ExporterNext
    \/ StartUpdater
    \/ UpdLoadAbort
    \/ UpdLoad
    \/ UpdCutoff
    \/ UpdCutoffThrows
    \/ UpdToken
    \/ UpdTokenFails
    \/ UpdFetchPage
    \/ UpdFetchEnd
    \/ UpdFetchFails
    \/ UpdUpToDate
    \/ UpdMergeWrite
    \/ RerunExporter

InitWriters == WritersInit /\ SimplifyIdle /\ NormIdle /\ ReadIdle /\ UpdaterIdle /\ CsvIdle /\ ValidatorIdle /\ GpxIdle /\ TokenIdle
SpecWriters == InitWriters /\ [][WritersNext]_vars

(***************************************************************************)
(* C1: for every input longer than maxPoints, simplifyCoords returns at    *)
(* most maxPoints elements and its last element is the input's last        *)
(* element.                                                                *)
(***************************************************************************)
C1_SimplifyBounded ==
    (spc = "done" /\ Len(coords) > maxPoints) =>
        /\ Len(result) <= maxPoints
        /\ Last(result) = Last(coords)

(***************************************************************************)
(* What the claims about normalizeCache speak of                           *)
(***************************************************************************)
\* the runs of the artifact normalizeCache returned
OutRuns == normalized.v.runs.v
OutStats == normalized.v.stats.v

\* the raw run entries of an input (the runs of an artifact, or a legacy array)
RawRunsOf(x) ==
    IF IsArray(x) THEN x.v
    ELSE IF IsArray(Get(x, "runs")) THEN Get(x, "runs").v
    ELSE <<>>

\* a coordinate value that is a finite number, or a string spelling one
SpellsNumber(x) == IsString(x) /\ Trim(x.v) # <<>> /\ IsFinite(StringToNumber(x.v))
HasFiniteCoords(r) ==
    /\ r.t = "object"
    /\ IsFinite(Get(r, "lat")) \/ SpellsNumber(Get(r, "lat"))
    /\ IsFinite(Get(r, "lng")) \/ SpellsNumber(Get(r, "lng"))

(***************************************************************************)
(* C2: a raw run whose lat or lng is not a finite number (missing, null,   *)
(* empty string, boolean, array, non-numeric string, NaN, Infinity) is     *)
(* dropped: the returned runs are no more than the raw runs that carry a   *)
(* finite coordinate pair.                                                 *)
(***************************************************************************)
C2_NonNumericCoordsDropped ==
    npc # "raw" =>
        Len(OutRuns) <=
            Cardinality({k \in DOMAIN RawRunsOf(raw) : HasFiniteCoords(RawRunsOf(raw)[k])})

(***************************************************************************)
(* C3: every run normalizeCache returns has finite lat and lng that are    *)
(* not both exactly zero.                                                  *)
(***************************************************************************)
C3_CoordsFiniteNotBothZero ==
    npc # "raw" =>
        \A k \in DOMAIN OutRuns :
            /\ IsFinite(OutRuns[k].v.lat)
            /\ IsFinite(OutRuns[k].v.lng)
            /\ ~(OutRuns[k].v.lat.v = 0 /\ OutRuns[k].v.lng.v = 0)

(***************************************************************************)
(* C4: every media path of every returned run is a string without '..'     *)
(* that begins with 'strava-media/'; a media value that fails is removed   *)
(* from the run's media, the run is kept, and the surviving values keep    *)
(* their relative order.                                                   *)
(***************************************************************************)
SafeMediaPath(p) ==
    /\ IsString(p)
    /\ ~Includes(p.v, <<".", ".">>)
    /\ StartsWith(p.v, MediaPrefix)

\* out is, in order, the trimmed and slash-stripped form of some of the
\* strings of in
RECURSIVE KeepsOrder(_, _)
KeepsOrder(out, in) ==
    IF out = <<>> THEN TRUE
    ELSE IF in = <<>> THEN FALSE
    ELSE \/ /\ IsString(Head(in))
            /\ StripLeadingSlashes(Trim(Head(in).v)) = Head(out).v
            /\ KeepsOrder(Tail(out), Tail(in))
         \/ KeepsOrder(out, Tail(in))

\* every raw run is an object located by two finite numbers
AllRunsLocated(x) ==
    \A k \in DOMAIN RawRunsOf(x) :
        /\ RawRunsOf(x)[k].t = "object"
        /\ IsFinite(Get(RawRunsOf(x)[k], "lat"))
        /\ IsFinite(Get(RawRunsOf(x)[k], "lng"))

RawMediaOf(r) == IF IsArray(Get(r, "media")) THEN Get(r, "media").v ELSE <<>>

C4_MediaSafe ==
    npc # "raw" =>
        /\ \A k \in DOMAIN OutRuns :
              \A m \in DOMAIN OutRuns[k].v.media.v :
                  SafeMediaPath(OutRuns[k].v.media.v[m])
        /\ AllRunsLocated(raw) =>
              /\ Len(OutRuns) = Len(RawRunsOf(raw))
              /\ \A k \in DOMAIN OutRuns :
                    KeepsOrder(OutRuns[k].v.media.v, RawMediaOf(RawRunsOf(raw)[k]))

\* a run whose media lost a '..' path and kept the path after it
C4_Witness ==
    /\ npc = "normalized"
    /\ AllRunsLocated(raw)
    /\ \E k \in DOMAIN OutRuns :
          /\ RawMediaOf(RawRunsOf(raw)[k]) =
                <<Str(<<".", ".", "/">> \o PhotoA.v), Str(<<"/", "/">> \o PhotoA.v)>>
          /\ OutRuns[k].v.media.v = <<PhotoA>>

(***************************************************************************)
(* C5: in every artifact the reader returns, stats.totalRuns is the number *)
(* of runs and stats.totalDistance the sum of their distances, whatever    *)
(* totals the input persisted.                                             *)
(***************************************************************************)
StatsConsistent(a) ==
    /\ a.v.stats.v.totalRuns = Num(Len(a.v.runs.v) * 100)
    /\ a.v.stats.v.totalDistance =
          Num(SeqSum([k \in DOMAIN a.v.runs.v |-> a.v.runs.v[k].v.distance.v]))

C5_StatsConsistent ==
    /\ StatsConsistent(EMPTY_CACHE)
    /\ npc # "raw" => StatsConsistent(normalized)

\* two runs with a distance, under persisted totals that are stale
C5_Witness ==
    /\ npc = "normalized"
    /\ Len(OutRuns) = 2
    /\ OutStats.totalDistance = Num(1500050)
    /\ Get(Get(raw, "stats"), "totalRuns") = Num(9900)
    /\ Get(Get(raw, "stats"), "totalDistance") = Num(-100)

(***************************************************************************)
(* C6: normalizeCache is idempotent: normalizing its own result returns    *)
(* the same artifact, field by field.                                      *)
(***************************************************************************)
C6_Idempotent ==
    npc = "renormalized" => renormalized = normalized

\* a second pass over an artifact the first pass had to change: runs
\* dropped, a media path rewritten, the dateRange cut to two entries
C6_Witness ==
    /\ npc = "renormalized"
    /\ normalized # raw
    /\ \/ /\ Len(OutRuns) > 0
          /\ Len(OutRuns) < Len(RawRunsOf(raw))
       \/ \E k \in DOMAIN OutRuns : OutRuns[k].v.media.v = <<PhotoA, PhotoB>>
       \/ /\ IsArray(Get(Get(raw, "stats"), "dateRange"))
          /\ Len(Get(Get(raw, "stats"), "dateRange").v) = 3
          /\ Len(OutStats.dateRange.v) = 2

(***************************************************************************)
(* C8 as stated: the persisted stats.dateRange is returned unchanged only  *)
(* when it is exactly two entries that are both parseable date strings; in *)
(* every other case the returned dateRange is recomputed from the          *)
(* normalized runs.                                                        *)
(***************************************************************************)
PersistedDateRange == Get(Get(raw, "stats"), "dateRange")

TwoParseableEntries(dr) ==
    /\ IsArray(dr)
    /\ Len(dr.v) = 2
    /\ \A k \in 1..2 : IsString(dr.v[k]) /\ IsValidDate(dr.v[k].v)

NonBlankStrings(dr) ==
    IF IsArray(dr)
    THEN SelectSeq(dr.v, LAMBDA e : IsString(e) /\ Trim(e.v) # <<>>)
    ELSE <<>>

FirstParsing ==
    {k \in 1..Len(paths) :
        /\ files[paths[k]].k = "json"
        /\ \A j \in 1..(k - 1) : files[paths[j]].k # "json"}

\* the paths an error text names, in the order it names them
PathsNamed(text) == SelectSeq(text, LAMBDA e : e \in Paths)

(***************************************************************************)
(* C9: readRunLocationsCache never throws: it is in its loop, with every   *)
(* failed attempt recorded, or has returned.  When no candidate reads and  *)
(* parses, it returns the empty artifact, source null and a non-empty      *)
(* error with one entry per attempted path, in attempt order; otherwise it *)
(* returns the normalization of the first candidate that parses, with that *)
(* path as source.                                                         *)
(***************************************************************************)
C9_ReadAlwaysReturns ==
    /\ rpc \in {"loop", "returned"}
    /\ rpc = "loop" =>
          /\ attempt <= Len(paths)
          /\ Len(errors) = attempt
    /\ rpc = "returned" =>
          IF FirstParsing = {}
          THEN /\ readResult.data = EMPTY_CACHE
               /\ readResult.source = Null
               /\ IsString(readResult.error)
               /\ readResult.error.v # <<>>
               /\ PathsNamed(readResult.error.v) = paths
          ELSE \A k \in FirstParsing :
                  /\ readResult.data = normalizeCache(files[paths[k]].json)
                  /\ readResult.source = Str(<<paths[k]>>)
                  /\ readResult.error = Null

\* two candidates, one missing and one no JSON: both are named in the error
C9_Witness ==
    /\ rpc = "returned"
    /\ Len(paths) = 2
    /\ files[paths[1]] = Missing
    /\ files[paths[2]] = Unparseable
    /\ readResult.source = Null
    /\ Len(readResult.error.v) = 7

(***************************************************************************)
(* C10: when the file found parses as JSON but its root is neither an      *)
(* object nor an array, readRunLocationsCache returns the empty artifact   *)
(* together with a non-null error.                                         *)
(***************************************************************************)
C10_MalformedRootReported ==
    (/\ rpc = "returned"
     /\ \E k \in FirstParsing : ~IsObjectLike(files[paths[k]].json)) =>
        /\ readResult.data = EMPTY_CACHE
        /\ readResult.error # Null

\* the records of a run list that carry the date d
WithDate(runs, d) == {k \in 1..Len(runs) : Get(runs[k], "date") = d}

\* the runs of the artifact at CachePath
WrittenRuns(fs) == fs[CachePath].json.v.runs.v

\* C7: when the updater merges and writes, the runs it loaded are an
\* unmodified prefix of the runs it writes, and a fetched run activity whose
\* start date (start_date_local, else start_date) is the date string of a
\* loaded run adds no record: the written runs carry that date exactly as
\* often as the loaded runs did.
C7_NoDuplicateOfExistingDate ==
    [][(upc = "fetched" /\ upc' = "exited" /\ outcome' = "written") =>
          /\ Len(WrittenRuns(files')) >= Len(cache.v.runs.v)
          /\ SubSeq(WrittenRuns(files'), 1, Len(cache.v.runs.v)) = cache.v.runs.v
          /\ \A k \in 1..Len(all) :
                (HasGps(all[k]) /\ ActivityDate(all[k]) \in ExistingDates(cache.v.runs.v)) =>
                    Cardinality(WithDate(WrittenRuns(files'), ActivityDate(all[k])))
                        = Cardinality(WithDate(cache.v.runs.v, ActivityDate(all[k])))
          /\ files'[PublicPath] = files'[CachePath]]_vars

\* a run activity dated like the existing record was fetched next to a new one:
\* the written runs hold the existing record once, untouched, and the new one
C7_Witness ==
    /\ upc = "exited"
    /\ outcome = "written"
    /\ updaterRuns = 1
    /\ \E k \in 1..Len(all) :
          /\ HasGps(all[k])
          /\ ActivityDate(all[k]) = Get(UpdaterRunA, "date")
          /\ WithDate(WrittenRuns(files), ActivityDate(all[k])) = {1}
          /\ WrittenRuns(files)[1] = UpdaterRunA
    /\ Len(WrittenRuns(files)) = 2

(***************************************************************************)
(* C11: called with the default paths while both default files parse, the  *)
(* reader returns the data of public/data/run-locations.json; it returns   *)
(* the data of .cache/run-locations.json only when the public file cannot  *)
(* be read or parsed.                                                      *)
(***************************************************************************)
C11_DefaultReadsPublicFirst ==
    (rpc = "returned" /\ paths = getDefaultPaths) =>
        /\ files[PublicPath].k = "json" =>
              /\ readResult.source = Str(<<PublicPath>>)
              /\ readResult.data = normalizeCache(files[PublicPath].json)
        /\ readResult.source = Str(<<CachePath>>) => files[PublicPath].k # "json"

(***************************************************************************)
(* C12: a root that is a bare array is read as the runs list: the returned *)
(* runs are the normalized valid elements in order, routes is empty, and   *)
(* the stats are computed from the returned runs (n located run objects    *)
(* give totalRuns = n).                                                    *)
(***************************************************************************)
C12_LegacyArrayUpConverted ==
    (npc # "raw" /\ IsArray(raw)) =>
        /\ OutRuns = NotNull([k \in 1..Len(raw.v) |-> normalizeRun(raw.v[k])])
        /\ normalized.v.routes = Arr(<<>>)
        /\ StatsConsistent(normalized)
        /\ OutStats.uniqueLocations = Num(getUniqueLocations(OutRuns) * 100)
        /\ OutStats.dateRange = Arr(getDateRange(OutRuns))
        /\ normalized = normalizeCache(Artifact(raw, Arr(<<>>), Undefined))
        /\ AllRunsLocated(raw) => OutStats.totalRuns = Num(Len(raw.v) * 100)

\* a bare array of two valid run objects
C12_Witness ==
    /\ npc = "normalized"
    /\ raw = Arr(<<RunA, RunB>>)
    /\ Len(OutRuns) = 2
    /\ OutStats.totalRuns = Num(200)
    /\ normalized.v.routes = Arr(<<>>)

(***************************************************************************)
(* C13: for a row of well-formed fields, bare or quoted, splitCSVRow       *)
(* returns exactly the values of the fields, one per field: a comma inside *)
(* quotes does not split, a doubled quote inside quotes is one quote, the  *)
(* enclosing quotes are dropped.                                           *)
(***************************************************************************)
C13_SplitsWellFormedRow ==
    cpc = "split" =>
        /\ Len(fields) = Len(row)
        /\ \A k \in 1..Len(row) : fields[k] = row[k].value

\* the quoted field "5,280 ""great"" run" after a bare field
C13_Witness ==
    /\ cpc = "split"
    /\ Len(row) = 2
    /\ row[1].text = <<"a">>
    /\ row[2].value = GreatRun
    /\ Len(row[2].text) = Len(GreatRun) + 4
    /\ fields = <<<<"a">>, GreatRun>>

(***************************************************************************)
(* C14: on a public artifact whose root is an object with runs and routes  *)
(* arrays and a stats object, when some run is no object or has a lat,     *)
(* lng, distance or moving_time that is no finite number, a name that is   *)
(* no string or a media that is no array, the validator exits with status  *)
(* 1 having printed exactly one 'Validation failed' message, which names   *)
(* the index of the first such run; it exits with status 0, having printed *)
(* 'Validation passed: N runs, M routes', only when no run is such.        *)
(***************************************************************************)
OffendingRun(run) ==
    \/ run.t # "object"
    \/ \E f \in {"lat", "lng", "distance", "moving_time"} : ~IsFinite(Get(run, f))
    \/ ~IsString(Get(run, "name"))
    \/ ~IsArray(Get(run, "media"))

HasArtifactShape(x) ==
    /\ x.t = "object"
    /\ IsArray(Get(x, "runs"))
    /\ IsArray(Get(x, "routes"))
    /\ IsObjectLike(Get(x, "stats"))

\* the 0-based indices of the offending runs
OffendingIndices(x) ==
    {k \in 0..(Len(Get(x, "runs").v) - 1) : OffendingRun(Get(x, "runs").v[k + 1])}

C14_FailsOnFirstOffendingRun ==
    (vpc = "exited" /\ files[DATA_FILE].k = "json" /\ HasArtifactShape(parsed)) =>
        /\ OffendingIndices(parsed) # {} =>
              /\ vExit = 1
              /\ stdout = <<>>
              /\ Len(stderr) = 1
              /\ stderr[1][1] = "Validation failed: "
              /\ stderr[1][2] = "runs["
              /\ stderr[1][3] \in OffendingIndices(parsed)
              /\ \A k \in OffendingIndices(parsed) : stderr[1][3] <= k
        /\ vExit = 0 =>
              /\ OffendingIndices(parsed) = {}
              /\ stderr = <<>>
              /\ Len(stdout) = 1
              /\ SubSeq(stdout[1], 1, 5) =
                    <<"Validation passed: ", Len(Get(parsed, "runs").v), " runs, ",
                      Len(Get(parsed, "routes").v), " routes (">>

\* a valid run, then a run without moving_time: the message names index 1
C14_Witness ==
    /\ vpc = "exited"
    /\ vExit = 1
    /\ Get(parsed, "runs") = Arr(<<RunA, RunWithout("moving_time")>>)
    /\ stderr = <<<<"Validation failed: ", "runs[", 1,
                    "] has invalid distance/moving_time">>>>

\* the candidate file parses to an artifact whose runs is a sequence
HoldsArtifact(p) ==
    /\ files[p].k = "json"
    /\ IsArray(Get(files[p].json, "runs"))

(***************************************************************************)
(* C15: the updater aborts with 'No valid run locations cache found' only  *)
(* when neither the primary cache nor the public copy holds an artifact    *)
(* whose runs is a sequence; when one of them does, it loads the first     *)
(* such candidate, the primary before the public copy, and goes on.        *)
(***************************************************************************)
C15_LoadsAnyValidCandidate ==
    /\ (upc = "exited" /\ outcome = "no-cache") =>
          ~HoldsArtifact(CachePath) /\ ~HoldsArtifact(PublicPath)
    /\ upc = "loaded" =>
          /\ HoldsArtifact(CachePath) => cache = files[CachePath].json
          /\ ~HoldsArtifact(CachePath) => cache = files[PublicPath].json

\* a sequence, as Array.prototype.filter keeps order: sub is a subsequence of s
RECURSIVE IsSubSeq(_, _)
IsSubSeq(sub, s) ==
    IF sub = <<>> THEN TRUE
    ELSE IF s = <<>> THEN FALSE
    ELSE IF Head(sub) = Head(s) THEN IsSubSeq(Tail(sub), Tail(s))
    ELSE IsSubSeq(sub, Tail(s))

\* the records of the fetched run activities, in fetch order
FetchedRecords == [k \in 1..Len(NewRuns(all)) |-> ToRunRecord(NewRuns(all)[k])]

(***************************************************************************)
(* C16: once at least one fetched run has a usable start coordinate the    *)
(* updater writes, and it writes one artifact to both the primary cache    *)
(* and the public path: the loaded runs followed by the fetched records    *)
(* whose date no loaded run carries, the loaded routes, and stats whose    *)
(* totalRuns is the number of runs written.                                *)
(***************************************************************************)
C16_WritesBothFiles ==
    [][(upc = "fetched" /\ NewRuns(all) # <<>>) =>
          /\ upc' = "exited" /\ outcome' = "written" /\ exitCode' = 0
          /\ files'[PublicPath] = files'[CachePath]
          /\ files'[CachePath].k = "json"
          /\ LET written == files'[CachePath].json
                 appended == SubSeq(WrittenRuns(files'), Len(cache.v.runs.v) + 1,
                                    Len(WrittenRuns(files')))
             IN /\ SubSeq(WrittenRuns(files'), 1, Len(cache.v.runs.v)) = cache.v.runs.v
                /\ IsSubSeq(appended, FetchedRecords)
                /\ \A k \in 1..Len(FetchedRecords) :
                      FetchedRecords[k] \in {appended[j] : j \in 1..Len(appended)}
                          <=> Get(FetchedRecords[k], "date") \notin ExistingDates(cache.v.runs.v)
                /\ Get(written, "routes") = Get(cache, "routes")
                /\ Get(Get(written, "stats"), "totalRuns")
                      = Num(Len(WrittenRuns(files')) * 100)
                /\ Get(written, "stats") = WriterStats(WrittenRuns(files'))]_vars

\* the exporter's artifact, which was in the primary cache only, written to
\* both paths with one run more
C16_Witness ==
    /\ upc = "exited"
    /\ outcome = "written"
    /\ updaterRuns = 1
    /\ files[PublicPath] = files[CachePath]
    /\ Get(files[PublicPath].json, "routes") = Arr(<<ExportedRoute>>)
    /\ Len(WrittenRuns(files)) = 3
    /\ Get(Get(files[PublicPath].json, "stats"), "totalRuns") = Num(300)
    /\ loadedFrom = Str(<<CachePath>>)

\* the claim's filter: a run with a two-element start coordinate that is not (0,0)
IsRunWithStart(a) ==
    /\ Get(a, "type") = RunType
    /\ IsArray(Get(a, "start_latlng"))
    /\ Len(Get(a, "start_latlng").v) = 2
    /\ Get(a, "start_latlng").v # <<Num(0), Num(0)>>

(***************************************************************************)
(* C18: a fetched activity is kept as a new run exactly when its type is   *)
(* Run and it has a two-element start coordinate other than (0,0); a run   *)
(* that starts at latitude 0 and a longitude other than 0 is kept.         *)
(***************************************************************************)
C18_KeepsRunsNotAtOrigin ==
    upc = "fetched" => NewRuns(all) = SelectSeq(all, IsRunWithStart)

\* the coordinates of the track points of a text whose lat and lon parse to
\* finite numbers that are not both zero, in document order
ValidPoints(text) ==
    LET valid == SelectSeq(PatternMatches(text),
                           LAMBDA el : /\ IsFinite(parseFloat(el.lat))
                                       /\ IsFinite(parseFloat(el.lon))
                                       /\ ~(parseFloat(el.lat) = Num(0)
                                              /\ parseFloat(el.lon) = Num(0)))
    IN [k \in 1..Len(valid) |-> <<parseFloat(valid[k].lat), parseFloat(valid[k].lon)>>]

(***************************************************************************)
(* C19: parseGPXFirstCoord returns the first track point of the text whose *)
(* lat and lon parse to finite numbers that are not both zero, and none    *)
(* only when the text has no such point.                                   *)
(***************************************************************************)
C19_FirstValidPoint ==
    gpc \in {"first", "all"} =>
        firstCoord = IF ValidPoints(gpxText) = <<>> THEN Null
                     ELSE Obj([lat |-> ValidPoints(gpxText)[1][1],
                               lng |-> ValidPoints(gpxText)[1][2]])

(***************************************************************************)
(* C20: parseGPXCoordinates returns, in document order, exactly the track  *)
(* points that are finite and not (0,0), a point with one zero component   *)
(* included, and the first of them is what parseGPXFirstCoord returns for  *)
(* the same text.                                                          *)
(***************************************************************************)
C20_AllPointsSameRule ==
    gpc = "all" =>
        /\ allCoords = [k \in 1..Len(ValidPoints(gpxText)) |-> Arr(ValidPoints(gpxText)[k])]
        /\ allCoords # <<>> =>
              /\ firstCoord # Null
              /\ allCoords[1] = Arr(<<firstCoord.v.lat, firstCoord.v.lng>>)

(***************************************************************************)
(* C17: after a successful run of the batch exporter the newly built       *)
(* artifact is at both .cache/run-locations.json and                       *)
(* public/data/run-locations.json, and every referenced media file is in   *)
(* public/strava-media/.                                                   *)
(***************************************************************************)
BuiltArtifact ==
    JsonRoundTrip(Artifact(Arr(runLocations), Arr(expRoutes), WriterStats(runLocations)))

C17_ExporterWritesBothFiles ==
    (epc = "exited" /\ expExit = 0) =>
        /\ files[CachePath] = Json(BuiltArtifact)
        /\ files[PublicPath] = Json(BuiltArtifact)
        /\ \A m \in MediaRefs(runLocations) : basename(m) \in FileNames(publicMedia)

\* the run records of the primary artifact
PrimaryRuns(fs) ==
    IF fs[CachePath].k = "json" THEN RawRunsOf(fs[CachePath].json) ELSE <<>>

\* every record of before is a record of after
AllKept(before, after) ==
    \A k \in 1..Len(before) : \E j \in 1..Len(after) : after[j] = before[k]

(***************************************************************************)
(* C21 as stated: no step of a writer run removes a run record from the    *)
(* primary artifact.                                                       *)
(***************************************************************************)
C21_ArtifactOnlyGrows ==
    [][AllKept(PrimaryRuns(files), PrimaryRuns(files'))]_vars

(***************************************************************************)
(* C21, amended: no step of an updater run removes a run record from the   *)
(* primary artifact; a successful exporter run replaces the artifact, and  *)
(* its runs are then exactly the records built from the export.            *)
(***************************************************************************)
C21_OnlyUpdaterGrows ==
    [][/\ updVars' # updVars => AllKept(PrimaryRuns(files), PrimaryRuns(files'))
       /\ (epc = "copied" /\ epc' = "exited") =>
              PrimaryRuns(files') = JsonRoundTrip(Arr(runLocations)).v]_vars

\* the updater has appended a run to the exporter's artifact, and the
\* exporter, run again over the same export, has written its artifact anew
C21_Witness ==
    /\ outcome = "written"
    /\ upc = "exited"
    /\ epc = "exited"
    /\ expExit = 0
    /\ Len(cache.v.runs.v) = 2
    /\ Len(PrimaryRuns(files)) = 1

(***************************************************************************)
(* C22: the updater writes nothing on failure or no-op.  An abort (no      *)
(* valid cache, token refresh failure, page fetch failure) exits non-zero, *)
(* zero fetched runs with GPS exits zero as 'up to date', and no step of   *)
(* such a run modifies the primary or the public file: the only step that  *)
(* writes is the merge of at least one fetched run with GPS.               *)
(***************************************************************************)
C22_NoWriteOnFailureOrNoOp ==
    [][/\ (upc # "exited" /\ upc' = "exited" /\ outcome' \in {"no-cache", "error"}) =>
              /\ exitCode' = 1
              /\ files' = files
       /\ (upc = "fetched" /\ NewRuns(all) = <<>>) =>
              /\ upc' = "exited" /\ outcome' = "up-to-date" /\ exitCode' = 0
              /\ files' = files
       /\ (files'[CachePath] # files[CachePath] \/ files'[PublicPath] # files[PublicPath]) =>
              /\ upc = "fetched" /\ NewRuns(all) # <<>>
              /\ outcome' = "written"]_vars

\* activities were fetched, none of them a run with GPS: 'up to date', with
\* the two files as different as they were
C22_Witness ==
    /\ upc = "exited"
    /\ outcome = "up-to-date"
    /\ exitCode = 0
    /\ all # <<>>
    /\ updaterRuns = 1
    /\ files[CachePath] # files[PublicPath]
    /\ files[PublicPath] = Missing

\* the geo file a run row names is missing (or the row names none)
GeoFileMissing(run) ==
    \/ Falsy(Get(run, FilenameColumn))
    \/ Get(run, FilenameColumn).v \notin DOMAIN ExportFiles

\* the geo file is there and cannot be decoded: a corrupt binary, or a track
\* text without a track point that parses
GeoFileUndecodable(run) ==
    /\ ~GeoFileMissing(run)
    /\ LET file == ExportFiles[Get(run, FilenameColumn).v]
       IN \/ file.kind = "corrupt"
          \/ /\ file.kind = "gpx"
             /\ \A k \in 1..Len(file.text) :
                   \/ file.text[k].tag # "trkpt"
                   \/ isNaN(parseFloat(file.text[k].lat))
                   \/ isNaN(parseFloat(file.text[k].lon))

(***************************************************************************)
(* C23: at the end of the exporter's run loop the error counter is the     *)
(* number of run rows whose geo file is missing or cannot be decoded, and  *)
(* the rows processed are the accepted records, the counted errors and     *)
(* the rows whose file decodes without a coordinate fix.                   *)
(***************************************************************************)
C23_ErrorsCounted ==
    (epc \in {"runs", "routes", "copied", "exited"} /\ processed = Len(expRuns)) =>
        LET missing == {k \in 1..Len(expRuns) : GeoFileMissing(expRuns[k])}
            undecodable == {k \in 1..Len(expRuns) : GeoFileUndecodable(expRuns[k])}
            noFix == {k \in 1..Len(expRuns) :
                         /\ ~GeoFileMissing(expRuns[k])
                         /\ ~GeoFileUndecodable(expRuns[k])
                         /\ Falsy(CoordOfFile(Get(expRuns[k], FilenameColumn).v))}
        IN /\ expErrors = Cardinality(missing) + Cardinality(undecodable)
           /\ processed = Len(runLocations) + expErrors + Cardinality(noFix)

\* the names of the media files the accepted runs refer to
ReferencedMedia == {basename(m) : m \in MediaRefs(runLocations)}

(***************************************************************************)
(* C24: the media copy step of the exporter copies a referenced media file *)
(* exactly when it is in the export's media directory and not yet in the   *)
(* public one; a file already there keeps its content, a missing source is *)
(* skipped without an error, nothing else is added, and the same step run  *)
(* again on the resulting state would copy nothing.                        *)
(***************************************************************************)
C24_CopiesMissingDestinationsOnly ==
    [][(epc = "routes" /\ epc' = "copied") =>
          /\ \A f \in publicMedia : f \in publicMedia'
          /\ \A n \in ReferencedMedia :
                MediaFile(n, "export") \in publicMedia' \ publicMedia
                    <=> (n \in ExportMedia /\ n \notin FileNames(publicMedia))
          /\ \A f \in publicMedia' \ publicMedia :
                f.name \in ReferencedMedia /\ f.content = "export"
          /\ copiedMedia' = Cardinality(publicMedia' \ publicMedia)
          /\ expErrors' = expErrors
          /\ MediaToCopy(runLocations', FileNames(publicMedia')) = {}
          /\ CopyMedia(runLocations', publicMedia') = publicMedia']_vars

\* a run refers to p.jpg and q.jpg: p.jpg was copied, q.jpg is not in the export
C24_Witness ==
    /\ epc = "copied"
    /\ copiedMedia = 1
    /\ ReferencedMedia = {PhotoP, PhotoQ}
    /\ publicMedia = {MediaFile(PhotoP, "export")}

\* the requests for activity pages among the requests sent so far
PageRequests == SelectSeq(requests, LAMBDA r : r.to = "activities")

\* the bodies of the first n requests of rs, one after the other
RECURSIVE BodiesOf(_, _)
BodiesOf(rs, n) == IF n = 0 THEN <<>> ELSE BodiesOf(rs, n - 1) \o rs[n].body

(***************************************************************************)
(* C25: the updater's requests are sent in a strict order.  The token      *)
(* refresh is the first request and has succeeded before any page is       *)
(* requested; the pages are requested as 1, 2, 3, ... with the one cutoff; *)
(* page k+1 is requested only after page k came back OK and non-empty;     *)
(* the loop ends at the first empty page and returns the non-empty pages   *)
(* joined in page order; a page that is not OK ends the run with a         *)
(* non-zero exit and nothing written.                                      *)
(***************************************************************************)
C25_RequestOrdering ==
    LET n == Len(PageRequests) IN
    /\ \A k \in 1..Len(requests) : requests[k].to = "token" <=> k = 1
    /\ n > 0 => requests[1].ok
    /\ \A k \in 1..n :
          /\ PageRequests[k].page = k
          /\ PageRequests[k].after = latestTimestamp
    /\ \A k \in 1..(n - 1) : PageRequests[k].ok /\ PageRequests[k].body # <<>>
    /\ (n > 0 /\ PageRequests[n].ok /\ PageRequests[n].body # <<>>) =>
          /\ upc = "fetch"
          /\ page = n + 1
          /\ all = BodiesOf(PageRequests, n)
    /\ (n > 0 /\ PageRequests[n].ok /\ PageRequests[n].body = <<>>) =>
          /\ upc \in {"fetched", "exited"}
          /\ all = BodiesOf(PageRequests, n - 1)
          /\ upc = "exited" => outcome \in {"up-to-date", "written"}
    /\ (n > 0 /\ ~PageRequests[n].ok) =>
          /\ upc = "exited"
          /\ outcome = "error"
          /\ exitCode = 1
    /\ upc = "fetch" => requests # <<>>
    /\ upc = "fetched" => (n > 0 /\ PageRequests[n].ok /\ PageRequests[n].body = <<>>)

\* two non-empty pages, then the empty one: three requests after the token's
C25_Witness ==
    /\ upc = "fetched"
    /\ Len(PageRequests) = 3
    /\ Len(all) = 2
    /\ PageRequests[3].page = 3
    /\ PageRequests[3].after = 86400

\* a token is cached whose expires_at is more than 300 seconds from now
CachedAndValidFor300s ==
    /\ cachedTokens # Null
    /\ Get(cachedTokens, "expires_at").v > (now + 300) * 100

(***************************************************************************)
(* C26: getAccessToken returns without a request to the token endpoint     *)
(* exactly when a token is cached whose expires_at is more than 300        *)
(* seconds after the current time, and then returns the cached access      *)
(* token; otherwise it sends a refresh request.  The cache changes only    *)
(* when a refresh response is OK, to the tokens of that response; a        *)
(* refresh that fails throws and leaves the cache as it was.               *)
(***************************************************************************)
C26_TokenCache ==
    [][/\ \A c \in Callers :
          /\ (tpc[c] = "idle" /\ tpc'[c] = "returned") =>
                /\ CachedAndValidFor300s
                /\ tokenResult'[c] = Get(cachedTokens, "access_token")
                /\ tokenFetches' = tokenFetches
                /\ cachedTokens' = cachedTokens
          /\ (tpc[c] = "idle" /\ tpc'[c] = "fetching") =>
                /\ ~CachedAndValidFor300s
                /\ tokenFetches' = tokenFetches + 1
          /\ (tpc[c] = "idle" /\ tpc'[c] # "idle") =>
                tpc'[c] = (IF CachedAndValidFor300s THEN "returned" ELSE "fetching")
          /\ (tpc[c] = "fetching" /\ tpc'[c] = "thrown") => cachedTokens' = cachedTokens
          /\ (tpc[c] = "fetching" /\ tpc'[c] = "returned") =>
                tokenResult'[c] = Get(cachedTokens', "access_token")
       /\ cachedTokens' # cachedTokens =>
             \E d \in Callers : tpc[d] = "fetching" /\ tpc'[d] = "returned"]_vars

\* a second token was fetched because the first, still unexpired, had come
\* within 300 seconds of its expiry
C26_Witness ==
    /\ tokenFetches = 2
    /\ cachedTokens # Null
    /\ Get(cachedTokens, "access_token") = Str(TokenTexts[1])
    /\ Get(cachedTokens, "expires_at").v > now * 100
    /\ \E c \in Callers : tpc[c] = "fetching"

(***************************************************************************)
(* C27: whenever the existing artifact has passed the updater's load check *)
(* (its runs is a sequence, be it empty or without a date that parses),    *)
(* the updater computes a cutoff and goes on to the token refresh: the run *)
(* does not end before a request was sent.                                 *)
(***************************************************************************)
C27_CutoffAlwaysComputed ==
    [][upc = "loaded" => upc' = "token"]_vars

\* no two records of a run list carry the same date string
DistinctDates(runs) ==
    \A j, k \in 1..Len(runs) : Get(runs[j], "date") = Get(runs[k], "date") => j = k

(***************************************************************************)
(* C28: when the runs the updater loaded have pairwise distinct date       *)
(* strings, the runs it writes after a merge have pairwise distinct date   *)
(* strings too: two fetched activities with one date string do not both    *)
(* add a record.                                                           *)
(***************************************************************************)
C28_DatesStayDistinct ==
    [][(upc = "fetched" /\ upc' = "exited" /\ outcome' = "written"
            /\ DistinctDates(cache.v.runs.v)) =>
          DistinctDates(WrittenRuns(files'))]_vars

\* the keys of an object
KeysOf(x) == DOMAIN x.v

(***************************************************************************)
(* C29: the artifact a merge writes differs from the loaded one in runs    *)
(* and stats only, and in runs only by a tail: the loaded records come     *)
(* first, each equal to what was loaded, every record after them has an    *)
(* empty media list, and routes is the loaded value.                       *)
(***************************************************************************)
C29_OnlyTailAndStatsChange ==
    [][(upc = "fetched" /\ upc' = "exited" /\ outcome' = "written") =>
          LET loaded == cache.v.runs.v
              written == files'[PublicPath].json
          IN /\ KeysOf(written) = KeysOf(cache)
             /\ \A key \in KeysOf(cache) \ {"runs", "stats"} : written.v[key] = cache.v[key]
             /\ written.v.routes = cache.v.routes
             /\ Len(written.v.runs.v) >= Len(loaded)
             /\ \A k \in 1..Len(written.v.runs.v) :
                   IF k <= Len(loaded)
                   THEN written.v.runs.v[k] = loaded[k]
                   ELSE Get(written.v.runs.v[k], "media") = Arr(<<>>)]_vars

\* the exporter's two runs, one with a photo, and its route were loaded; the
\* written artifact holds them unchanged before a third record without media
C29_Witness ==
    /\ upc = "exited"
    /\ outcome = "written"
    /\ updaterRuns = 1
    /\ Len(WrittenRuns(files)) = 3
    /\ SubSeq(WrittenRuns(files), 1, 2) = <<ExporterRunA, ExporterRunB>>
    /\ Get(WrittenRuns(files)[1], "media") = Arr(<<PhotoA>>)
    /\ Get(WrittenRuns(files)[3], "media") = Arr(<<>>)
    /\ Get(files[CachePath].json, "routes") = Arr(<<ExportedRoute>>)

\* the media paths of the run records of the artifact at CachePath
WrittenMedia(fs) ==
    LET runs == WrittenRuns(fs)
    IN UNION {{Get(runs[k], "media").v[m] : m \in 1..Len(Get(runs[k], "media").v)} :
                 k \in 1..Len(runs)}

(***************************************************************************)
(* C30: every media path the exporter has written into a run record of the *)
(* artifact is a path the reader's sanitizeMediaPath returns unchanged, so *)
(* that the reader drops no photo reference of the exporter.               *)
(***************************************************************************)
C30_ExportedMediaAccepted ==
    (epc = "exited" /\ expExit = 0) =>
        \A m \in WrittenMedia(files) :
            /\ IsString(sanitizeMediaPath(m))
            /\ sanitizeMediaPath(m).v = m.v

====
